---- MODULE Spec2Model ----
(***************************************************************************)
(* Quotation reconciliation and spreadsheet layout engine                  *)
(* (src/test.py, src/excelOutput.py, src/app.py).                          *)
(*                                                                         *)
(* Text is modelled as a sequence of one-character strings, so that the    *)
(* regular expressions of the source act on characters.  A Thai literal of *)
(* the source (a summary label, a column header, the default unit) is one  *)
(* opaque element written in angle brackets: the source only copies and    *)
(* compares these literals, and none of them starts or ends with white     *)
(* space or starts with a digit.                                           *)
(* Numbers are integers counting hundredths (2000 is 20.00, 140 is 1.4).   *)
(***************************************************************************)
EXTENDS Integers, Sequences, FiniteSets, TLC

VARIABLES
    c_in, c_out, c_out2, c_app, c_app2, c_pc,   \* clean_product_name runs
    v_in, v_out, v_pc,                          \* validate_json_data runs
    variant,            \* "gsheet" (src/test.py) or "excel" (src/excelOutput.py)
    grid,               \* the sheet: <<row, column>> -> value, non-empty cells only
    l_pc,               \* "idle", or "multi" inside update_*_with_multiple_files
    l_queue,            \* multi-document call: the records still to process
    existing_products,  \* multi-document call: its list of {name, row}
    existing_suppliers, \* multi-document call: its map company -> block column
    next_avail_col,     \* multi-document call: its next free block column
    calls,              \* number of update calls made so far
    last,               \* what the last processed document did (history)
    owner,              \* company -> column of the first block written for it (history)
    entry,              \* the function of the last call and its number of records (history)
    m_targets, m_refs, m_out, m_pc,             \* match_products_smart runs
    m_resp,             \* matcher run: what the external model does when asked
    m_gem,              \* matcher run: match_products_with_gemini of src/test.py
    m_app,              \* matcher run: match_products_with_gemini of src/app.py
    d_a, d_b, d_pa, d_pb, d_close, d_pc,        \* _dims_close runs
    total_files,        \* process_files: len(file_paths)
    future_to_file,     \* process_files: the extraction task of each document
    data_list,          \* process_files: the records collected so far
    error_list,         \* process_files: the error entries collected so far
    f_pc,               \* process_files: position of the collecting thread
    p_total, p_futures, p_pc,   \* the thread pool alone: documents, task phases, position
    w_named,            \* _wait_for_file_active: the uploaded file has a name
    w_elapsed,          \* _wait_for_file_active: time.time() - start, in seconds
    w_seen,             \* _wait_for_file_active: what the last poll gave
    w_last,             \* _wait_for_file_active: the file object seen last (history)
    w_ret,              \* _wait_for_file_active: the object returned
    w_pc                \* _wait_for_file_active: position

cvars == <<c_in, c_out, c_out2, c_app, c_app2, c_pc>>
vvars == <<v_in, v_out, v_pc>>
lvars == <<variant, grid, l_pc, l_queue, existing_products, existing_suppliers,
           next_avail_col, calls, last, owner, entry>>
mvars == <<m_targets, m_refs, m_out, m_pc, m_resp, m_gem, m_app>>
dvars == <<d_a, d_b, d_pa, d_pb, d_close, d_pc>>
fvars == <<total_files, future_to_file, data_list, error_list, f_pc>>
pvars == <<p_total, p_futures, p_pc>>
wvars == <<w_named, w_elapsed, w_seen, w_last, w_ret, w_pc>>
vars == <<cvars, vvars, lvars, mvars, dvars, fvars, pvars, wvars>>

(***************************************************************************)
(* Bounds                                                                  *)
(***************************************************************************)
MaxNameLen == 4      \* longest fuzzed product name, in characters
MaxItems == 2        \* most product entries in a fuzzed raw record

(***************************************************************************)
(* Characters and text helpers                                             *)
(***************************************************************************)
DigitChars == {"0", "1", "2", "3", "4", "5", "6", "7", "8", "9"}

DigitVal(ch) ==
    CASE ch = "0" -> 0 [] ch = "1" -> 1 [] ch = "2" -> 2 [] ch = "3" -> 3
      [] ch = "4" -> 4 [] ch = "5" -> 5 [] ch = "6" -> 6 [] ch = "7" -> 7
      [] ch = "8" -> 8 [] OTHER -> 9

IsSpace(ch) == ch = " "

RECURSIVE lstrip(_)
lstrip(s) == IF s # <<>> /\ IsSpace(Head(s)) THEN lstrip(Tail(s)) ELSE s

RECURSIVE rstrip(_)
rstrip(s) ==
    IF s # <<>> /\ IsSpace(s[Len(s)]) THEN rstrip(SubSeq(s, 1, Len(s) - 1)) ELSE s

\* str.strip()
strip(s) == rstrip(lstrip(s))

RECURSIVE SkipDigits(_)
SkipDigits(s) == IF s # <<>> /\ Head(s) \in DigitChars THEN SkipDigits(Tail(s)) ELSE s

\* re.sub(r"^\s*\d+[\.\)\-]\s*", "", s): one leading ordinal is removed.
SubOrdinal(s) ==
    LET a == lstrip(s)
        b == SkipDigits(a)
    IN IF Len(b) < Len(a) /\ b # <<>> /\ Head(b) \in {".", ")", "-"}
       THEN lstrip(Tail(b))
       ELSE s

\* re.sub(r"^\d+\.\s*", "", s): the pattern of src/app.py.
SubOrdinalApp(s) ==
    LET b == SkipDigits(s)
    IN IF Len(b) < Len(s) /\ b # <<>> /\ Head(b) = "."
       THEN lstrip(Tail(b))
       ELSE s

UnknownProduct ==
    <<"U", "n", "k", "n", "o", "w", "n", " ", "P", "r", "o", "d", "u", "c", "t">>
UnknownCompany ==
    <<"U", "n", "k", "n", "o", "w", "n", " ", "C", "o", "m", "p", "a", "n", "y">>
DefaultUnit == <<"<chin>">>

\* A cleaner that only trims and keeps an enumeration prefix: claim C1 tells
\* clean_product_name from it.
KeepPrefix(name) == IF strip(name) = <<>> THEN UnknownProduct ELSE strip(name)

\* clean_product_name of src/test.py and src/excelOutput.py, on a string.
clean_product_name(name) ==
    IF name = <<>> THEN UnknownProduct ELSE SubOrdinal(strip(name))

\* clean_product_name of src/app.py, on a string.
clean_product_name_app(name) ==
    IF name = <<>> THEN UnknownProduct ELSE SubOrdinalApp(strip(name))

RECURSIVE StringsUpTo(_, _)
StringsUpTo(alphabet, n) ==
    IF n = 0 THEN {<<>>}
    ELSE LET shorter == StringsUpTo(alphabet, n - 1)
         IN shorter \cup {Append(s, ch) : s \in {t \in shorter : Len(t) = n - 1},
                                          ch \in alphabet}

(***************************************************************************)
(* JSON values.  A value is a record [k, n, s]: k is its Python type,      *)
(* n a number in hundredths (for a list or an object: its length; for a    *)
(* boolean: 1 or 0), s the text of a string.  "absent" is a missing key.   *)
(* An int and a float of the same value are one number here.               *)
(***************************************************************************)
JAbsent == [k |-> "absent", n |-> 0, s |-> <<>>]
JNull == [k |-> "null", n |-> 0, s |-> <<>>]
JStr(s) == [k |-> "str", n |-> 0, s |-> s]
JNum(n) == [k |-> "num", n |-> n, s |-> <<>>]
JBool(b) == [k |-> "bool", n |-> IF b THEN 1 ELSE 0, s |-> <<>>]
JList(len) == [k |-> "list", n |-> len, s |-> <<>>]
JDict(len) == [k |-> "dict", n |-> len, s |-> <<>>]

\* Python truthiness of x.get(key): a missing key gives None.
Truthy(v) ==
    CASE v.k \in {"absent", "null"} -> FALSE
      [] v.k = "str" -> v.s # <<>>
      [] OTHER -> v.n # 0

\* s.replace(",", "")
RECURSIVE RemoveCommas(_)
RemoveCommas(s) ==
    IF s = <<>> THEN <<>>
    ELSE IF Head(s) = "," THEN RemoveCommas(Tail(s))
    ELSE <<Head(s)>> \o RemoveCommas(Tail(s))

AllDigits(s) == s # <<>> /\ \A i \in 1..Len(s) : s[i] \in DigitChars

FirstIndexOf(s, ch) ==
    IF \E i \in 1..Len(s) : s[i] = ch
    THEN CHOOSE i \in 1..Len(s) : s[i] = ch /\ \A j \in 1..(i - 1) : s[j] # ch
    ELSE 0

\* re.fullmatch(r"-?\d+(\.\d+)?", s)
IsNumberText(s) ==
    LET u == IF s # <<>> /\ Head(s) = "-" THEN Tail(s) ELSE s
        dot == FirstIndexOf(u, ".")
    IN IF dot = 0 THEN AllDigits(u)
       ELSE AllDigits(SubSeq(u, 1, dot - 1)) /\ AllDigits(SubSeq(u, dot + 1, Len(u)))

RECURSIVE DigitsValue(_)
DigitsValue(s) ==
    IF s = <<>> THEN 0
    ELSE 10 * DigitsValue(SubSeq(s, 1, Len(s) - 1)) + DigitVal(s[Len(s)])

\* float(s) in hundredths, for a text IsNumberText accepts; decimals beyond the
\* second are below the resolution of the model and are dropped.
NumberValue(s) ==
    LET neg == s # <<>> /\ Head(s) = "-"
        u == IF neg THEN Tail(s) ELSE s
        dot == FirstIndexOf(u, ".")
        whole == IF dot = 0 THEN u ELSE SubSeq(u, 1, dot - 1)
        frac == IF dot = 0 THEN <<>> ELSE SubSeq(u, dot + 1, Len(u))
        frac2 == SubSeq(frac \o <<"0", "0">>, 1, 2)
        mag == 100 * DigitsValue(whole) + DigitsValue(frac2)
    IN IF neg THEN 0 - mag ELSE mag

\* _to_number_or_default(val, default): str(val) of a number is a text the
\* pattern accepts; str of None, a boolean, a list or an object is not.
to_number_or_default(val, default) ==
    CASE val.k = "num" -> JNum(val.n)
      [] val.k = "str" ->
            IF IsNumberText(RemoveCommas(val.s))
            THEN JNum(NumberValue(RemoveCommas(val.s)))
            ELSE default
      [] OTHER -> default

\* round(num / den, 0) for den > 0, a tie going away from zero: what Python's
\* round(x * 0.07, 2) and round(q * p, 2) give on the doubles of the values
\* used here.
RoundDiv(num, den) ==
    IF num >= 0 THEN (2 * num + den) \div (2 * den)
    ELSE 0 - ((2 * (0 - num) + den) \div (2 * den))

VatRatePercent == 7

(***************************************************************************)
(* validate_json_data.  A raw input is a record: k its top-level type,     *)
(* n its length when it is not an object, and, for an object, one JSON     *)
(* value per key ("absent" when the key is missing); products is           *)
(* [k, n, items], items the entries when it is a list.  An entry is        *)
(* [obj, name, quantity, unit, pricePerUnit, totalPrice]; obj is FALSE for *)
(* an entry that is not an object.  The result carries raised = TRUE when  *)
(* the Python function raises instead of returning.                        *)
(***************************************************************************)
DefaultRecord ==
    [raised |-> FALSE,
     company |-> JStr(UnknownCompany), contact |-> JStr(<<>>), vat |-> JBool(FALSE),
     products |-> <<>>,
     totalPrice |-> JNum(0), totalVat |-> JNum(0), totalPriceIncludeVat |-> JNum(0),
     priceGuaranteeDay |-> JNum(0), deliveryTime |-> JStr(<<>>),
     paymentTerms |-> JStr(<<>>), otherNotes |-> JStr(<<>>)]

Raised == [DefaultRecord EXCEPT !.raised = TRUE]

\* "not json_data": None, {}, [], "", 0.
RawFalsy(raw) ==
    \/ raw.k = "null"
    \/ raw.k # "dict" /\ raw.n = 0
    \/ /\ raw.k = "dict"
       /\ \A f \in {"company", "vat", "totalPrice", "totalVat", "totalPriceIncludeVat",
                    "priceGuaranteeDay", "deliveryTime", "paymentTerms", "otherNotes"} :
              raw[f].k = "absent"
       /\ raw.products.k = "absent"

ProductsTruthy(p) == p.k \notin {"absent", "null"} /\ p.n # 0

\* One pass of the loop body over a product entry (src/test.py lines 150-164).
\* The result has raised = TRUE when an attribute lookup fails.
ValidateProduct(e) ==
    LET nm == IF Truthy(e.name) THEN e.name ELSE JStr(UnknownProduct)
        q0 == to_number_or_default(IF e.quantity.k = "absent" THEN JNum(100) ELSE e.quantity,
                                   JNum(100))
        q == IF q0.n <= 0 THEN JNum(100) ELSE q0
        u == IF Truthy(e.unit) THEN e.unit ELSE JStr(DefaultUnit)
        p == to_number_or_default(IF e.pricePerUnit.k = "absent" THEN JNum(0) ELSE e.pricePerUnit,
                                  JNum(0))
        provided == to_number_or_default(IF e.totalPrice.k = "absent" THEN JNull ELSE e.totalPrice,
                                         JNull)
        t == IF provided.k = "null" THEN JNum(RoundDiv(q.n * p.n, 100)) ELSE provided
    IN IF ~e.obj \/ nm.k # "str"
       THEN [raised |-> TRUE, name |-> JNull, quantity |-> JNull, unit |-> JNull,
             pricePerUnit |-> JNull, totalPrice |-> JNull]
       ELSE [raised |-> FALSE, name |-> JStr(clean_product_name(nm.s)), quantity |-> q,
             unit |-> u, pricePerUnit |-> p, totalPrice |-> t]

RECURSIVE SumTotals(_)
SumTotals(ps) == IF ps = <<>> THEN 0 ELSE Head(ps).totalPrice.n + SumTotals(Tail(ps))

\* The record returned, its three totals known.
ValidatedRecord(raw, ps, total, vat, incl) ==
    [raised |-> FALSE,
     company |-> IF Truthy(raw.company) THEN raw.company ELSE JStr(UnknownCompany),
     contact |-> JStr(<<>>),
     vat |-> IF raw.vat.k = "absent" THEN JBool(FALSE) ELSE JBool(Truthy(raw.vat)),
     products |-> [i \in 1..Len(ps) |->
                     [name |-> ps[i].name, quantity |-> ps[i].quantity,
                      unit |-> ps[i].unit, pricePerUnit |-> ps[i].pricePerUnit,
                      totalPrice |-> ps[i].totalPrice]],
     totalPrice |-> total, totalVat |-> vat, totalPriceIncludeVat |-> incl,
     priceGuaranteeDay |-> IF raw.priceGuaranteeDay.k = "absent" THEN JNum(0)
                           ELSE raw.priceGuaranteeDay,
     deliveryTime |-> IF raw.deliveryTime.k = "absent" THEN JStr(<<>>)
                      ELSE raw.deliveryTime,
     paymentTerms |-> IF raw.paymentTerms.k = "absent" THEN JStr(<<>>)
                      ELSE raw.paymentTerms,
     otherNotes |-> IF raw.otherNotes.k = "absent" THEN JStr(<<>>)
                    ELSE raw.otherNotes]

\* A coercion that never takes the given value: claim C9 tells NumberField
\* from it.
DefaultOnly(field, default) == default

\* raw.get(key, default) passed through _to_number_or_default(.., default)
NumberField(field, default) ==
    to_number_or_default(IF field.k = "absent" THEN default ELSE field, default)

\* totalPriceIncludeVat: total + vat unless a number is given.
ValidateWithVat(raw, ps, total, vat) ==
    ValidatedRecord(raw, ps, total, vat,
                    NumberField(raw.totalPriceIncludeVat, JNum(total.n + vat.n)))

\* totalVat: round(total * 0.07, 2) unless a number is given.
ValidateWithTotal(raw, ps, total) ==
    ValidateWithVat(raw, ps, total,
                    NumberField(raw.totalVat, JNum(RoundDiv(total.n * VatRatePercent, 100))))

\* totalPrice: the sum of the line totals unless a number is given.
ValidateWithProducts(raw, ps) ==
    IF \E i \in 1..Len(ps) : ps[i].raised THEN Raised
    ELSE ValidateWithTotal(raw, ps, NumberField(raw.totalPrice, JNum(SumTotals(ps))))

ValidateItems(raw, items) ==
    ValidateWithProducts(raw, [i \in 1..Len(items) |-> ValidateProduct(items[i])])

validate_json_data(raw) ==
    IF RawFalsy(raw) THEN DefaultRecord
    ELSE IF raw.k # "dict" THEN Raised
    ELSE IF ProductsTruthy(raw.products) /\ raw.products.k # "list" THEN Raised
    ELSE ValidateItems(raw, IF ProductsTruthy(raw.products) THEN raw.products.items ELSE <<>>)

(***************************************************************************)
(* Raw inputs of the validator runs.                                       *)
(***************************************************************************)
S_Acme == <<"A", "c", "m", "e">>
S_Widget == <<"W", "i", "d", "g", "e", "t">>
S_1Widget == <<"1", ".", " ">> \o S_Widget
S_pcs == <<"p", "c", "s">>

NameVals ==
    {JAbsent, JStr(<<>>), JStr(<<" ", " ">>), JStr(<<"1", ".", " ">>),
     JStr(S_1Widget), JNum(500)}
QtyVals ==
    {JAbsent, JNum(200), JNum(0), JStr(<<"-", "5">>), JStr(<<"1", ",", "0", "0", "0">>)}
PriceVals == {JAbsent, JNum(1000), JStr(<<"-", "5">>), JStr(<<"1", "0", ".", "5">>)}
LineTotalVals == {JAbsent, JNum(2500), JStr(<<"n", "/", "a">>)}
UnitVals == {JAbsent, JStr(S_pcs)}

NonObjectEntry ==
    [obj |-> FALSE, name |-> JAbsent, quantity |-> JAbsent, unit |-> JAbsent,
     pricePerUnit |-> JAbsent, totalPrice |-> JAbsent]

FirstEntries ==
    [obj : {TRUE}, name : NameVals, quantity : QtyVals, unit : UnitVals,
     pricePerUnit : PriceVals, totalPrice : LineTotalVals] \cup {NonObjectEntry}

LaterEntries ==
    {[obj |-> TRUE, name |-> JStr(<<"G">>), quantity |-> JNum(300), unit |-> JAbsent,
      pricePerUnit |-> JNum(500), totalPrice |-> JAbsent],
     [obj |-> TRUE, name |-> JNull, quantity |-> JStr(<<"x">>), unit |-> JNum(0),
      pricePerUnit |-> JNull, totalPrice |-> JStr(<<"7">>)],
     NonObjectEntry}

RECURSIVE EntryLists(_)
EntryLists(n) ==
    IF n = 0 THEN {<<>>}
    ELSE IF n = 1 THEN {<<>>} \cup {<<e>> : e \in FirstEntries}
    ELSE LET shorter == EntryLists(n - 1)
         IN shorter \cup {Append(l, e) : l \in {t \in shorter : Len(t) = n - 1},
                                         e \in LaterEntries}

ProductsVals ==
    {[k |-> "list", n |-> Len(l), items |-> l] : l \in EntryLists(MaxItems)}
    \cup {[k |-> kk, n |-> 3, items |-> <<>>] : kk \in {"str", "dict", "num"}}
    \cup {[k |-> kk, n |-> 0, items |-> <<>>] : kk \in {"absent", "null"}}

RawObjects ==
    [k : {"dict"}, n : {0},
     company : {JAbsent, JStr(S_Acme)},
     vat : {JAbsent},
     products : ProductsVals,
     totalPrice : {JAbsent, JNum(5000), JStr(<<"x">>)},
     totalVat : {JAbsent, JStr(<<"1", ".", "5">>)},
     totalPriceIncludeVat : {JAbsent},
     priceGuaranteeDay : {JAbsent}, deliveryTime : {JAbsent},
     paymentTerms : {JAbsent}, otherNotes : {JAbsent}]
    \cup
    [k : {"dict"}, n : {0},
     company : {JStr(<<>>)},
     vat : {JStr(<<"y">>)},
     products : {pv \in ProductsVals : pv.n <= 1},
     totalPrice : {JAbsent},
     totalVat : {JNull},
     totalPriceIncludeVat : {JNum(900), JBool(TRUE)},
     priceGuaranteeDay : {JNum(3000)}, deliveryTime : {JNull},
     paymentTerms : {JStr(<<"c", "o", "d">>)}, otherNotes : {JAbsent}]

NonObject(kk, len) ==
    [k |-> kk, n |-> len,
     company |-> JAbsent, vat |-> JAbsent,
     products |-> [k |-> "absent", n |-> 0, items |-> <<>>],
     totalPrice |-> JAbsent, totalVat |-> JAbsent, totalPriceIncludeVat |-> JAbsent,
     priceGuaranteeDay |-> JAbsent, deliveryTime |-> JAbsent,
     paymentTerms |-> JAbsent, otherNotes |-> JAbsent]

RawInputs ==
    RawObjects
    \cup {NonObject("null", 0), NonObject("list", 0), NonObject("list", 1),
          NonObject("str", 3), NonObject("num", 500)}

(***************************************************************************)
(* The sheet.  grid maps <<row, column>> (both 1-based) to the value of a  *)
(* non-empty cell; writing "" or None empties a cell.  A cell is addressed *)
(* by its numbers: the A1 text the source builds with get_column_letter    *)
(* names the same cell.                                                    *)
(***************************************************************************)
COMPANY_NAME_ROW == 1
CONTACT_INFO_ROW == 2
HEADER_ROW == 3
ITEM_MASTER_LIST_COL == 2
COLUMNS_PER_SUPPLIER == 4

\* SUMMARY_LABELS, in source order (glosses of the Thai literals).
SUMMARY_LABELS ==
    << <<"<subtotal>">>, <<"<vat 7%>">>, <<"<grand total>">>,
       <<"<price guarantee (days)>">>, <<"<delivery time after PO>">>,
       <<"<payment>">>, <<"<other>">> >>

LabelSet == {SUMMARY_LABELS[i] : i \in 1..Len(SUMMARY_LABELS)}

\* The four column headers of a supplier block; the last one is the same
\* literal as the first summary label.
BLOCK_HEADERS ==
    <<JStr(<<"<quantity>">>), JStr(<<"<unit>">>), JStr(<<"<unit price>">>),
      JStr(<<"<subtotal>">>)>>

SetMax(S) == CHOOSE x \in S : \A y \in S : y <= x
SetMin(S) == CHOOSE x \in S : \A y \in S : x <= y

EmptyGrid == [p \in {} |-> JNull]

IsEmptyValue(v) == v.k \in {"absent", "null"} \/ (v.k = "str" /\ v.s = <<>>)

Cell(g, r, c) == IF <<r, c>> \in DOMAIN g THEN g[<<r, c>>] ELSE JStr(<<>>)

\* The text get_all_values gives for a cell.  Numbers only ever stand in the
\* figure columns of rows below the header, which no scan reads: their text
\* is kept apart from every product name and label, and non-empty.
CellText(g, r, c) ==
    LET v == Cell(g, r, c) IN IF v.k = "str" THEN v.s ELSE <<"#">>

LastRow(g) == IF DOMAIN g = {} THEN 0 ELSE SetMax({p[1] : p \in DOMAIN g})
LastCol(g) == IF DOMAIN g = {} THEN 0 ELSE SetMax({p[2] : p \in DOMAIN g})

\* The cells request req writes: its values left to right from (row, col).
RequestCells(req) == {<<req.row, req.col + j - 1>> : j \in 1..Len(req.values)}

\* ws.batch_update(requests): the requests applied in order, so a cell holds
\* the value of the last request that writes it.
batch_update(g, requests) ==
    LET touched == UNION {RequestCells(requests[i]) : i \in 1..Len(requests)}
        written(p) ==
            LET i == SetMax({k \in 1..Len(requests) : p \in RequestCells(requests[k])})
            IN requests[i].values[p[2] - requests[i].col + 1]
        kept == {p \in DOMAIN g \cup touched : p \in touched => ~IsEmptyValue(written(p))}
    IN [p \in kept |-> IF p \in touched THEN written(p) ELSE g[p]]

\* ws.insert_rows(new_rows, at): n blank rows before row at.
insert_rows(g, n, at) ==
    IF n = 0 THEN g
    ELSE [p \in {<<IF q[1] >= at THEN q[1] + n ELSE q[1], q[2]>> : q \in DOMAIN g} |->
             g[<<IF p[1] >= at THEN p[1] - n ELSE p[1], p[2]>>]]

Request(r, c, values) == [row |-> r, col |-> c, values |-> values]

\* ensure_first_three_rows_exist: "" written to A1:B1, A2:B2, A3:B3.
ensure_first_three_rows_exist(g) ==
    batch_update(g, [i \in 1..HEADER_ROW |-> Request(i, 1, <<JStr(<<>>), JStr(<<>>)>>)])

\* _last_non_empty_col_in_top_rows
last_non_empty_col_in_top_rows(g) ==
    LET used == {p[2] : p \in {q \in DOMAIN g :
                                 /\ q[1] <= HEADER_ROW
                                 /\ strip(CellText(g, q[1], q[2])) # <<>>}}
    IN SetMax(used \cup {ITEM_MASTER_LIST_COL})

find_next_available_column(g) ==
    LET start_col == ITEM_MASTER_LIST_COL + 1
        last_used == last_non_empty_col_in_top_rows(g)
        offset == last_used - start_col + 1
        groups_used == (offset + COLUMNS_PER_SUPPLIER - 1) \div COLUMNS_PER_SUPPLIER
    IN IF last_used < start_col THEN start_col
       ELSE start_col + groups_used * COLUMNS_PER_SUPPLIER

(***************************************************************************)
(* The scan of a snapshot (src/test.py lines 286-310 and 464-482).         *)
(***************************************************************************)
MasterText(g, r) == strip(CellText(g, r, ITEM_MASTER_LIST_COL))

ProductRows(g) ==
    {r \in (HEADER_ROW + 1)..LastRow(g) :
        MasterText(g, r) # <<>> /\ MasterText(g, r) \notin LabelSet}

SummaryRows(g) ==
    {r \in (HEADER_ROW + 1)..LastRow(g) : MasterText(g, r) \in LabelSet}

RECURSIVE ProductsOfRows(_, _)
ProductsOfRows(g, rows) ==
    IF rows = {} THEN <<>>
    ELSE LET r == SetMin(rows)
         IN <<[name |-> clean_product_name(MasterText(g, r)), row |-> r]>>
            \o ProductsOfRows(g, rows \ {r})

\* existing_products after the scan: {name, row} in row order.
ScanProducts(g) == ProductsOfRows(g, ProductRows(g))

\* summary_row_map after the scan: a later row of a label replaces an earlier one.
ScanSummary(g) ==
    [lab \in {MasterText(g, r) : r \in SummaryRows(g)} |->
        SetMax({r \in SummaryRows(g) : MasterText(g, r) = lab})]

\* first_summary_row after the scan.
FirstSummaryRow(g) == IF SummaryRows(g) = {} THEN -1 ELSE SetMin(SummaryRows(g))

BlockColumns(g) ==
    {c \in (ITEM_MASTER_LIST_COL + 1)..LastCol(g) :
        (c - (ITEM_MASTER_LIST_COL + 1)) % COLUMNS_PER_SUPPLIER = 0}

SupplierAt(g, c) == strip(CellText(g, COMPANY_NAME_ROW, c))

\* existing_suppliers after the scan: a later block of a name replaces an
\* earlier one.
ScanSuppliers(g) ==
    [name \in {SupplierAt(g, c) : c \in BlockColumns(g)} \ {<<>>} |->
        SetMax({c \in BlockColumns(g) : SupplierAt(g, c) = name})]

(***************************************************************************)
(* Pieces shared by the single- and the multi-document update.             *)
(***************************************************************************)
\* for product in products: if product.get("name"): clean it
CleanNames(products) ==
    [i \in 1..Len(products) |->
        IF Truthy(products[i].name)
        THEN [products[i] EXCEPT !.name = JStr(clean_product_name(products[i].name.s))]
        ELSE products[i]]

\* existing_suppliers.get(company_name, next_avail_col)
ResolveColumn(suppliers, company, nac) ==
    IF company \in DOMAIN suppliers THEN suppliers[company] ELSE nac

HeaderRequests(col, data) ==
    <<Request(COMPANY_NAME_ROW, col, <<data.company>>),
      Request(CONTACT_INFO_ROW, col, <<JStr(strip(data.contact.s))>>),
      Request(HEADER_ROW, col, BLOCK_HEADERS)>>

Figures(item) == <<item.quantity, item.unit, item.pricePerUnit, item.totalPrice>>

\* The loop over matched_items without populated_rows: every item writes to
\* the first row of its name.
RECURSIVE EveryMatchedRequest(_, _, _, _)
EveryMatchedRequest(matched, existing, col, populated) ==
    IF matched = <<>> THEN <<>>
    ELSE LET item == Head(matched)
             cands == {i \in 1..Len(existing) : existing[i].name = item.name.s}
         IN IF cands = {}
            THEN EveryMatchedRequest(Tail(matched), existing, col, populated)
            ELSE <<Request(existing[SetMin(cands)].row, col, Figures(item))>>
                 \o EveryMatchedRequest(Tail(matched), existing, col, populated)

\* The loop over matched_items with populated_rows.
RECURSIVE MatchedRequests(_, _, _, _)
MatchedRequests(matched, existing, col, populated) ==
    IF matched = <<>> THEN <<>>
    ELSE LET item == Head(matched)
             cands == {i \in 1..Len(existing) :
                          /\ existing[i].name = item.name.s
                          /\ existing[i].row \notin populated}
         IN IF cands = {}
            THEN MatchedRequests(Tail(matched), existing, col, populated)
            ELSE LET row == existing[SetMin(cands)].row
                 IN <<Request(row, col, Figures(item))>>
                    \o MatchedRequests(Tail(matched), existing, col, populated \cup {row})

\* The loop over unique_items: each name cleaned once more, kept when no
\* existing product has it.
RECURSIVE NewProducts(_, _)
NewProducts(unique, existing) ==
    IF unique = <<>> THEN <<>>
    ELSE LET item == [Head(unique) EXCEPT !.name = JStr(clean_product_name(@.s))]
         IN (IF \E i \in 1..Len(existing) : existing[i].name = item.name.s
             THEN <<>> ELSE <<item>>)
            \o NewProducts(Tail(unique), existing)

RECURSIVE NewProductRequests(_, _, _)
NewProductRequests(newp, row, col) ==
    IF newp = <<>> THEN <<>>
    ELSE <<Request(row, ITEM_MASTER_LIST_COL, <<Head(newp).name>>),
           Request(row, col, Figures(Head(newp)))>>
         \o NewProductRequests(Tail(newp), row + 1, col)

\* summary_items: the value of each label, in label order.
SummaryValues(data) ==
    <<data.totalPrice, data.totalVat, data.totalPriceIncludeVat, data.priceGuaranteeDay,
      data.deliveryTime, data.paymentTerms, data.otherNotes>>

\* Summary rows found by the scan: one value per label that has a row.
RECURSIVE ReuseSummaryRequests(_, _, _, _)
ReuseSummaryRequests(i, smap, price_col, data) ==
    IF i > Len(SUMMARY_LABELS) THEN <<>>
    ELSE (IF SUMMARY_LABELS[i] \in DOMAIN smap
          THEN <<Request(smap[SUMMARY_LABELS[i]], price_col, <<SummaryValues(data)[i]>>)>>
          ELSE <<>>)
         \o ReuseSummaryRequests(i + 1, smap, price_col, data)

\* Summary rows written fresh from summary_row on: label and value per row.
RECURSIVE FreshSummaryRequests(_, _, _, _)
FreshSummaryRequests(i, summary_row, price_col, data) ==
    IF i > Len(SUMMARY_LABELS) THEN <<>>
    ELSE <<Request(summary_row + i - 1, ITEM_MASTER_LIST_COL, <<JStr(SUMMARY_LABELS[i])>>),
           Request(summary_row + i - 1, price_col, <<SummaryValues(data)[i]>>)>>
         \o FreshSummaryRequests(i + 1, summary_row, price_col, data)

\* A start one row nearer to the products: claim C2 tells FreshSummaryStart
\* from it.
OneRowNearer(insertion_row, n_new) == insertion_row + n_new + 1

\* summary_row = insertion_row + len(new_products) + 2
FreshSummaryStart(insertion_row, n_new) == insertion_row + n_new + 2

(***************************************************************************)
(* The matchers.                                                           *)
(***************************************************************************)
\* A renaming that keeps the target's own name: claim C12 tells WithName from it.
KeepName(item, name) == item

WithName(item, name) == [item EXCEPT !.name = JStr(name)]

RECURSIVE SelectSeq2(_, _, _)
SelectSeq2(items, answer, wantMatched) ==
    IF items = <<>> THEN <<>>
    ELSE LET n == Len(items)
             rest == SelectSeq2(SubSeq(items, 1, n - 1), answer, wantMatched)
         IN IF (answer[n] > 0) = wantMatched THEN Append(rest, items[n]) ELSE rest

\* A matcher that returns no item at all: claim C11 tells
\* match_products_with_gemini from it.
DropTargets(targets, refs, answer) == [matchedItems |-> <<>>, uniqueItems |-> <<>>]

\* match_products_with_gemini.  The answer of the external model is an input:
\* answer[i] = 0 leaves target i unique, answer[i] = k > 0 returns it as
\* matched under the name of reference k.  A failed call or an unparsable
\* response is the all-zero answer.
match_products_with_gemini(targets, refs, answer) ==
    IF targets = <<>> THEN [matchedItems |-> <<>>, uniqueItems |-> <<>>]
    ELSE IF refs = <<>> THEN [matchedItems |-> <<>>, uniqueItems |-> targets]
    ELSE [matchedItems |->
              SelectSeq2([i \in 1..Len(targets) |->
                             IF answer[i] > 0 THEN WithName(targets[i], refs[answer[i]])
                             ELSE targets[i]],
                         answer, TRUE),
          uniqueItems |-> SelectSeq2(targets, answer, FALSE)]

GeminiAnswers(targets, refs) ==
    IF targets = <<>> \/ refs = <<>> THEN {[i \in 1..Len(targets) |-> 0]}
    ELSE [1..Len(targets) -> 0..Len(refs)]

\* The answers a call can see: the deterministic matcher asks no one.
Answers(var, targets, refs) ==
    IF var = "gsheet" THEN GeminiAnswers(targets, refs)
    ELSE {[i \in 1..Len(targets) |-> 0]}

(***************************************************************************)
(* match_products_smart (src/excelOutput.py).  Names are ASCII here: the   *)
(* Thai alternatives of the patterns and keyword lists cannot occur in     *)
(* them and are left out.  Lengths are integers counting thousandths of a  *)
(* millimetre.                                                             *)
(***************************************************************************)
UpperChars ==
    <<"A", "B", "C", "D", "E", "F", "G", "H", "I", "J", "K", "L", "M",
      "N", "O", "P", "Q", "R", "S", "T", "U", "V", "W", "X", "Y", "Z">>
LowerChars ==
    <<"a", "b", "c", "d", "e", "f", "g", "h", "i", "j", "k", "l", "m",
      "n", "o", "p", "q", "r", "s", "t", "u", "v", "w", "x", "y", "z">>

LowerChar(ch) ==
    IF \E i \in 1..26 : UpperChars[i] = ch
    THEN LowerChars[CHOOSE i \in 1..26 : UpperChars[i] = ch]
    ELSE ch

IsWordChar(ch) ==
    \/ ch \in DigitChars
    \/ ch = "_"
    \/ \E i \in 1..26 : ch = LowerChars[i] \/ ch = UpperChars[i]

\* re.sub(r"\s+", " ", s)
RECURSIVE CollapseSpaces(_)
CollapseSpaces(s) ==
    IF s = <<>> THEN <<>>
    ELSE IF IsSpace(Head(s)) THEN <<" ">> \o CollapseSpaces(lstrip(s))
    ELSE <<Head(s)>> \o CollapseSpaces(Tail(s))

\* s.replace("*", "x") and the replacement of the multiplication sign
ReplaceTimes(s) == [i \in 1..Len(s) |-> IF s[i] \in {"*", "<times>"} THEN "x" ELSE s[i]]

\* _normalize_text
normalize_text(s) ==
    IF s = <<>> THEN <<>>
    ELSE CollapseSpaces(SubOrdinal(ReplaceTimes(strip([i \in 1..Len(s) |-> LowerChar(s[i])]))))

\* s[i:].startswith(word)
StartsAt(s, i, word) ==
    /\ i >= 1
    /\ i + Len(word) - 1 <= Len(s)
    /\ SubSeq(s, i, i + Len(word) - 1) = word

\* word in s
Contains(s, word) == \E i \in 1..Len(s) : StartsAt(s, i, word)

\* Index of the first character at or after i that is not white space.
RECURSIVE SkipWs(_, _)
SkipWs(s, i) == IF i <= Len(s) /\ IsSpace(s[i]) THEN SkipWs(s, i + 1) ELSE i

RECURSIVE DigitsEnd(_, _)
DigitsEnd(s, i) ==
    IF i + 1 <= Len(s) /\ s[i + 1] \in DigitChars THEN DigitsEnd(s, i + 1) ELSE i

\* \d+(?:\.\d+)? matched at i: the index of its last character, 0 when s has
\* no digit at i.
NumEnd(s, i) ==
    IF i < 1 \/ i > Len(s) \/ s[i] \notin DigitChars THEN 0
    ELSE LET e == DigitsEnd(s, i)
         IN IF e + 2 <= Len(s) /\ s[e + 1] = "." /\ s[e + 2] \in DigitChars
            THEN DigitsEnd(s, e + 2)
            ELSE e

\* float(text) of a matched number, in thousandths; a fourth decimal is below
\* the resolution of the model.
Thousandths(text) ==
    LET dot == FirstIndexOf(text, ".")
        whole == IF dot = 0 THEN text ELSE SubSeq(text, 1, dot - 1)
        frac == IF dot = 0 THEN <<>> ELSE SubSeq(text, dot + 1, Len(text))
    IN 1000 * DigitsValue(whole) + DigitsValue(SubSeq(frac \o <<"0", "0", "0">>, 1, 3))

\* (mm|cm|m)? at i: the unit text, <<>> when there is none.
UnitAt(s, i) ==
    IF StartsAt(s, i, <<"m", "m">>) THEN <<"m", "m">>
    ELSE IF StartsAt(s, i, <<"c", "m">>) THEN <<"c", "m">>
    ELSE IF StartsAt(s, i, <<"m">>) THEN <<"m">>
    ELSE <<>>

\* _to_mm, on thousandths
to_mm(val, unit) ==
    CASE unit = <<"m", "m">> -> val
      [] unit = <<"c", "m">> -> 10 * val
      [] unit = <<"m">> -> 1000 * val
      [] OTHER -> IF val <= 100000 THEN 1000 * val ELSE val

RECURSIVE SortedSeq(_)
SortedSeq(S) ==
    IF S = <<>> THEN <<>>
    ELSE LET i == CHOOSE k \in 1..Len(S) : \A j \in 1..Len(S) : S[k] <= S[j]
         IN <<S[i]>> \o SortedSeq([j \in 1..(Len(S) - 1) |-> IF j < i THEN S[j] ELSE S[j + 1]])

\* The index after "\s*x\s*" read from e + 1 on, 0 when no x stands there.
AfterX(s, e) ==
    LET x == SkipWs(s, e + 1)
    IN IF e > 0 /\ x <= Len(s) /\ s[x] = "x" THEN SkipWs(s, x + 1) ELSE 0

NoSeqMatch == [ok |-> FALSE, vals |-> <<>>, last |-> 0]

\* patt_seq with its numbers found: s[b1..e1], s[b2..e2] and, when e3 > 0,
\* s[b3..e3]; the optional unit follows.
SeqMatchResult(s, b1, e1, b2, e2, b3, e3) ==
    LET u == SkipWs(s, (IF e3 > 0 THEN e3 ELSE e2) + 1)
        nums == <<SubSeq(s, b1, e1), SubSeq(s, b2, e2)>>
                \o (IF e3 > 0 THEN <<SubSeq(s, b3, e3)>> ELSE <<>>)
    IN [ok |-> TRUE,
        vals |-> SortedSeq([k \in 1..Len(nums) |-> to_mm(Thousandths(nums[k]), UnitAt(s, u))]),
        last |-> u + Len(UnitAt(s, u)) - 1]

SeqMatchSecond(s, b1, e1, b2, e2) ==
    IF e2 = 0 THEN NoSeqMatch
    ELSE SeqMatchResult(s, b1, e1, b2, e2, AfterX(s, e2), NumEnd(s, AfterX(s, e2)))

SeqMatchFirst(s, b1, e1) ==
    IF e1 = 0 THEN NoSeqMatch
    ELSE SeqMatchSecond(s, b1, e1, AfterX(s, e1), NumEnd(s, AfterX(s, e1)))

\* patt_seq tried at i: [ok, vals (sorted, in mm), last (end of the match)].
SeqMatchAt(s, i) == SeqMatchFirst(s, i, NumEnd(s, i))

FirstOfHits(s, hits) == IF hits = {} THEN <<>> ELSE SeqMatchAt(s, SetMin(hits)).vals

\* res["sequence"][0]: the first match of patt_seq, <<>> when there is none
\* (_dims_close reads no other entry of the list).
FirstSequence(s) == FirstOfHits(s, {i \in 1..Len(s) : SeqMatchAt(s, i).ok})

\* The alternatives of the label group of patt_labeled, in pattern order,
\* each with its key in _DIM_LABELS.
DIM_LABELS ==
    << <<<<"w", "i", "d", "t", "h">>, "w">>,
       <<<<"h", "e", "i", "g", "h", "t">>, "h">>,
       <<<<"l", "e", "n", "g", "t", "h">>, "l">>,
       <<<<"t", "h", "i", "c", "k", "n", "e", "s", "s">>, "t">>,
       <<<<"t", "h", "i", "c", "k">>, "t">>,
       <<<<"d", "e", "p", "t", "h">>, "d">>,
       <<<<"w">>, "w">>,
       <<<<"h">>, "h">>,
       <<<<"l">>, "l">>,
       <<<<"t">>, "t">>,
       <<<<"d">>, "d">> >>

NoLabelMatch == [ok |-> FALSE, key |-> "", mm |-> 0, last |-> 0]

\* The index after "\s*[:=]?\s*" read from a on.
AfterSeparator(s, a) ==
    LET c == SkipWs(s, a)
    IN SkipWs(s, IF c <= Len(s) /\ s[c] \in {":", "="} THEN c + 1 ELSE c)

LabelTryResult(s, key, b, e) ==
    LET u == SkipWs(s, e + 1)
    IN IF e = 0 THEN NoLabelMatch
       ELSE [ok |-> TRUE, key |-> key,
             mm |-> to_mm(Thousandths(SubSeq(s, b, e)), UnitAt(s, u)),
             last |-> u + Len(UnitAt(s, u)) - 1]

LabelTryNumber(s, key, b) == LabelTryResult(s, key, b, NumEnd(s, b))

LabelTryWord(s, i, label) ==
    IF StartsAt(s, i, label[1])
    THEN LabelTryNumber(s, label[2], AfterSeparator(s, i + Len(label[1])))
    ELSE NoLabelMatch

\* patt_labeled tried at i with alternative k: [ok, key, mm, last].
LabelTryAt(s, i, k) == LabelTryWord(s, i, DIM_LABELS[k])

LabelPick(s, i, good) == IF good = {} THEN NoLabelMatch ELSE LabelTryAt(s, i, SetMin(good))

\* patt_labeled tried at i: the first alternative that matches.
LabelMatchAt(s, i) == LabelPick(s, i, {k \in 1..Len(DIM_LABELS) : LabelTryAt(s, i, k).ok})

\* re.findall(patt_labeled, s) folded into res["labeled"]: matches do not
\* overlap, a later match of a key replaces an earlier one.
RECURSIVE LabeledFrom(_, _, _)
LabeledStep(s, pos, acc, m) ==
    IF m.ok
    THEN LabeledFrom(s, m.last + 1,
                     [k \in DOMAIN acc \cup {m.key} |-> IF k = m.key THEN m.mm ELSE acc[k]])
    ELSE LabeledFrom(s, pos + 1, acc)

LabeledFrom(s, pos, acc) ==
    IF pos > Len(s) THEN acc ELSE LabeledStep(s, pos, acc, LabelMatchAt(s, pos))

\* patt_thick: a number, "mm" and a word boundary at i.
ThickAt(s, i) ==
    LET e == NumEnd(s, i)
        m == SkipWs(s, e + 1)
    IN /\ e > 0
       /\ StartsAt(s, m, <<"m", "m">>)
       /\ (m + 2 > Len(s) \/ ~IsWordChar(s[m + 2]))

\* res["labeled"].setdefault("t", mm) with the first match of patt_thick.
WithThickness(s, lab, hits) ==
    IF hits = {} \/ "t" \in DOMAIN lab THEN lab
    ELSE [k \in DOMAIN lab \cup {"t"} |->
             IF k = "t"
             THEN to_mm(Thousandths(SubSeq(s, SetMin(hits), NumEnd(s, SetMin(hits)))),
                        <<"m", "m">>)
             ELSE lab[k]]

DimensionsOf(s) ==
    [labeled |-> WithThickness(s, LabeledFrom(s, 1, [k \in {} |-> 0]),
                               {i \in 1..Len(s) : ThickAt(s, i)}),
     sequence |-> FirstSequence(s)]

\* _parse_dimensions
parse_dimensions(text) == DimensionsOf(normalize_text(text))

AbsDiff(a, b) == IF a >= b THEN a - b ELSE b - a

\* _nearly_equal_mm with pct = 0.02 and abs_mm = 5.0; d <= 0.02 * m is written
\* d <= m \div 50, which is the same for integers and keeps the numbers small.
nearly_equal_mm(a, b) ==
    IF a = 0 \/ b = 0 THEN AbsDiff(a, b) <= 5000
    ELSE AbsDiff(a, b) <= (IF a >= b THEN a ELSE b) \div 50 \/ AbsDiff(a, b) <= 5000

\* _dims_close
dims_close(dim_a, dim_b) ==
    LET la == dim_a.labeled
        lb == dim_b.labeled
        sa == dim_a.sequence
        sb == dim_b.sequence
    IN IF \E k \in DOMAIN la \cap DOMAIN lb : ~nearly_equal_mm(la[k], lb[k]) THEN FALSE
       ELSE IF sa # <<>> /\ sb # <<>>
            THEN /\ Len(sa) = Len(sb)
                 /\ \A i \in 1..Len(sa) : nearly_equal_mm(sa[i], sb[i])
            ELSE TRUE

TYPE_KEYWORDS ==
    << <<"aluminum_rail", {<<"a", "l", "u", "m", "i", "n", "i", "u", "m", " ", "r", "a", "i", "l">>, <<"a", "l", "u", "m", "i", "n", "u", "m", " ", "r", "a", "i", "l">>}>>,
       <<"steel_u", {<<"u", "-", "c", "h", "a", "n", "n", "e", "l">>}>>,
       <<"glass_tempered", {<<"t", "e", "m", "p", "e", "r", "e", "d", " ", "g", "l", "a", "s", "s">>}>>,
       <<"glass_laminate", {<<"l", "a", "m", "i", "n", "a", "t", "e", "d", " ", "g", "l", "a", "s", "s">>, <<"l", "a", "m", "i", "n", "a", "t", "e", " ", "g", "l", "a", "s", "s">>}>>,
       <<"hinge", {<<"h", "i", "n", "g", "e">>}>>,
       <<"handle", {<<"h", "a", "n", "d", "l", "e">>, <<"k", "n", "o", "b">>, <<"p", "u", "l", "l">>}>>,
       <<"seal", {<<"s", "e", "a", "l">>, <<"g", "a", "s", "k", "e", "t">>}>>,
       <<"bracket", {<<"b", "r", "a", "c", "k", "e", "t">>, <<"c", "l", "o", "s", "e", "r">>}>>,
       <<"frame", {<<"f", "r", "a", "m", "e">>}>> >>

KeysFound(s, table) ==
    {table[i][1] : i \in {j \in 1..Len(table) : \E kw \in table[j][2] : Contains(s, kw)}}

WithGenericGlass(s, got) ==
    IF Contains(s, <<"g", "l", "a", "s", "s">>)
       /\ got \cap {"glass_tempered", "glass_laminate"} = {}
    THEN got \cup {"glass_generic"}
    ELSE got

\* _normalize_types
normalize_types(text) ==
    WithGenericGlass(normalize_text(text), KeysFound(normalize_text(text), TYPE_KEYWORDS))

MATERIAL_KEYWORDS ==
    << <<"aluminium", {<<"a", "l", "u", "m", "i", "n", "i", "u", "m">>, <<"a", "l", "u", "m", "i", "n", "u", "m">>}>>,
       <<"steel", {<<"s", "t", "e", "e", "l">>}>>,
       <<"glass", {<<"g", "l", "a", "s", "s">>}>>,
       <<"stainless", {<<"s", "t", "a", "i", "n", "l", "e", "s", "s">>}>>,
       <<"c_channel", {<<"c", "-", "c", "h", "a", "n", "n", "e", "l">>}>>,
       <<"u_channel", {<<"u", "-", "c", "h", "a", "n", "n", "e", "l">>}>> >>

\* _tokenize_material_semantics
tokenize_material_semantics(text) == KeysFound(normalize_text(text), MATERIAL_KEYWORDS)

\* _semantic_compatible
semantic_compatible(name_a, name_b) ==
    \/ normalize_types(name_a) \cap normalize_types(name_b) # {}
    \/ tokenize_material_semantics(name_a) \cap tokenize_material_semantics(name_b) # {}

\* The keys of ref_norm_map in insertion order: each normalized reference name
\* once, at its first occurrence.
RECURSIVE RefKeys(_)
RefKeys(refs) ==
    IF refs = <<>> THEN <<>>
    ELSE LET front == RefKeys(SubSeq(refs, 1, Len(refs) - 1))
             rn == normalize_text(refs[Len(refs)])
         IN IF \E i \in 1..Len(front) : front[i] = rn THEN front ELSE Append(front, rn)

\* ref_norm_map[rn]: the name of the last reference that normalizes to rn
\* (ref_dims_map[rn] is the dimensions of that same name).
RefOrig(refs, rn) ==
    refs[SetMax({i \in 1..Len(refs) : normalize_text(refs[i]) = rn})]

NoBest == [hit |-> FALSE, name |-> <<>>]

\* The loop over ref_norm_map.items(): the first reference in key order with
\* close dimensions and compatible semantics; "if best" drops an empty name.
FuzzyBest(nm, origs, fits) ==
    IF fits = {} \/ origs[SetMin(fits)] = <<>> THEN NoBest
    ELSE [hit |-> TRUE, name |-> origs[SetMin(fits)]]

FuzzyFits(nm, dims_t, origs) ==
    {i \in 1..Len(origs) :
        dims_close(dims_t, parse_dimensions(origs[i])) /\ semantic_compatible(nm, origs[i])}

\* The reference one target resolves to: the exact match after normalization
\* first, else the fuzzy one.
BestOf(nm, nm_clean, keys, origs) ==
    IF \E i \in 1..Len(keys) : keys[i] = nm_clean
    THEN [hit |-> TRUE, name |-> origs[CHOOSE i \in 1..Len(keys) : keys[i] = nm_clean]]
    ELSE FuzzyBest(nm, origs, FuzzyFits(nm, parse_dimensions(nm), origs))

SmartBest(name, keys, origs) == BestOf(strip(name), normalize_text(strip(name)), keys, origs)

SmartResult(targets, best) ==
    [matchedItems |->
         SelectSeq2([i \in 1..Len(targets) |-> WithName(targets[i], best[i].name)],
                    [i \in 1..Len(targets) |-> IF best[i].hit THEN 1 ELSE 0], TRUE),
     uniqueItems |->
         SelectSeq2(targets, [i \in 1..Len(targets) |-> IF best[i].hit THEN 1 ELSE 0], FALSE)]

SmartWithKeys(targets, refs, keys) ==
    SmartResult(targets,
                [i \in 1..Len(targets) |->
                    SmartBest(targets[i].name.s, keys,
                              [k \in 1..Len(keys) |-> RefOrig(refs, keys[k])])])

\* match_products_smart: targets are items, refs the reference names.
match_products_smart(targets, refs) == SmartWithKeys(targets, refs, RefKeys(refs))

\* The matcher of the variant.
match_products(var, targets, refs, answer) ==
    IF var = "gsheet" THEN match_products_with_gemini(targets, refs, answer)
    ELSE match_products_smart(targets, refs)

(***************************************************************************)
(* The layout engine: update_google_sheet_for_single_file /                *)
(* update_excel_for_single_file and the *_with_multiple_files functions.   *)
(***************************************************************************)
RefNames(existing) == [i \in 1..Len(existing) |-> existing[i].name]

NoDocument ==
    [op |-> "none", ret |-> 0, data |-> DefaultRecord, col |-> 0, advanced |-> FALSE,
     owned |-> FALSE, owned_col |-> 0, insertion_row |-> 0, n_new |-> 0,
     first_summary_row |-> -1, n_existing |-> 0, matched |-> <<>>, matched_rows |-> {},
     n_unique |-> 0, unique |-> <<>>, ops |-> <<>>]

\* The calls a document's update makes on the sheet after its scan.
InsertCall(n, at) == [call |-> "insert_rows", n |-> n, at |-> at, requests |-> <<>>]
BatchCall(requests) == [call |-> "batch_update", n |-> 0, at |-> 0, requests |-> requests]

\* The batch sent first and the rows inserted after it.
BatchThenInsert(n, at, requests) ==
    (IF requests # <<>> THEN <<BatchCall(requests)>> ELSE <<>>)
    \o (IF n > 0 THEN <<InsertCall(n, at)>> ELSE <<>>)

\* if new_products: ws.insert_rows(new_rows, at) ... and, last,
\* if batch_requests: ws.batch_update(batch_requests)
StoreCalls(n, at, requests) ==
    (IF n > 0 THEN <<InsertCall(n, at)>> ELSE <<>>)
    \o (IF requests # <<>> THEN <<BatchCall(requests)>> ELSE <<>>)

\* The sheet after the calls ops, made in order.
RECURSIVE RunCalls(_, _)
RunCalls(g, ops) ==
    IF ops = <<>> THEN g
    ELSE RunCalls(IF Head(ops).call = "insert_rows"
                  THEN insert_rows(g, Head(ops).n, Head(ops).at)
                  ELSE batch_update(g, Head(ops).requests),
                  Tail(ops))

\* The calls are made: the sheet they leave, and the calls in the history.
Issued(g, did, ops) == [grid |-> RunCalls(g, ops), did |-> [did EXCEPT !.ops = ops]]

\* History: the items the matcher returned as unique, and how many.
WithUnique(r, unique) == [r EXCEPT !.did.n_unique = Len(unique), !.did.unique = unique]

\* The summary rows as the scan found them.
KeepSummary(smap, first_summary_row, n) == smap

\* The summary rows found by the scan, after n rows were inserted.
ShiftSummary(smap, first_summary_row, n) ==
    IF n > 0 /\ first_summary_row > 0 THEN [lab \in DOMAIN smap |-> smap[lab] + n] ELSE smap

\* The summary writes of the single-document function.
SummaryRequests(smap, insertion_row, n, price_col, data) ==
    IF DOMAIN smap # {} THEN ReuseSummaryRequests(1, smap, price_col, data)
    ELSE FreshSummaryRequests(1, FreshSummaryStart(insertion_row, n), price_col, data)

\* The insertion and the one batch of the single-document function.
SingleCommit(g, data, existing, smap, first_summary_row, nac, col_idx, matched, matched_reqs, new_products, insertion_row) ==
    Issued(g,
           [NoDocument EXCEPT
               !.op = "single", !.ret = 1, !.data = data,
               !.col = col_idx, !.advanced = (col_idx = nac),
               !.insertion_row = insertion_row, !.n_new = Len(new_products),
               !.first_summary_row = first_summary_row,
               !.n_existing = Len(existing), !.matched = matched,
               !.matched_rows = {matched_reqs[i].row : i \in 1..Len(matched_reqs)}],
           StoreCalls(Len(new_products), insertion_row,
                      HeaderRequests(col_idx, data) \o matched_reqs
                      \o NewProductRequests(new_products, insertion_row, col_idx)
                      \o SummaryRequests(ShiftSummary(smap, first_summary_row, Len(new_products)),
                                         insertion_row, Len(new_products),
                                         col_idx + COLUMNS_PER_SUPPLIER - 1, data)))

\* From the matcher's result to the insertion point.
SingleMatched(g, data, existing, smap, first_summary_row, nac, col_idx, m) ==
    WithUnique(
        SingleCommit(g, data, existing, smap, first_summary_row, nac, col_idx, m.matchedItems,
                     MatchedRequests(m.matchedItems, existing, col_idx, {}),
                     NewProducts(m.uniqueItems, existing),
                     IF first_summary_row > 0 THEN first_summary_row
                     ELSE HEADER_ROW + 1 + Len(existing)),
        m.uniqueItems)

\* A single-document update that does not skip a record without products:
\* claim C14 tells SingleScanned from it.
SingleNoSkip(g, data, var, answer, existing, smap, first_summary_row, suppliers, nac) ==
    SingleMatched(g, data, existing, smap, first_summary_row, nac,
                  ResolveColumn(suppliers, data.company.s, nac),
                  match_products(var, CleanNames(data.products), RefNames(existing), answer))

\* After the scan: a record without products returns 0, any other resolves
\* its column and asks the matcher.
SingleScanned(g, data, var, answer, existing, smap, first_summary_row, suppliers, nac) ==
    IF data.products = <<>>
    THEN [grid |-> g, did |-> [NoDocument EXCEPT !.op = "single", !.data = data]]
    ELSE SingleMatched(g, data, existing, smap, first_summary_row, nac,
                       ResolveColumn(suppliers, data.company.s, nac),
                       match_products(var, CleanNames(data.products), RefNames(existing),
                                      answer))

\* The scan of the snapshot.
SingleOnSheet(g, data, var, answer) ==
    SingleScanned(g, data, var, answer, ScanProducts(g), ScanSummary(g), FirstSummaryRow(g),
                  ScanSuppliers(g), find_next_available_column(g))

\* One call of the single-document function on sheet g0: the sheet it leaves
\* and what it did (ret is the value returned).
SingleResult(g0, data, var, answer) ==
    SingleOnSheet(ensure_first_three_rows_exist(g0), data, var, answer)

\* existing_products without the new products.
ForgetProducts(existing, new_products, next_row) == existing

\* existing_products after the new products were appended to it.
AppendProducts(existing, new_products, next_row) ==
    existing \o [i \in 1..Len(new_products) |->
                    [name |-> new_products[i].name.s, row |-> next_row + i - 1]]

\* if company_name not in existing_suppliers: existing_suppliers[company_name] = col_idx
RememberSupplier(suppliers, company, col_idx) ==
    IF company \in DOMAIN suppliers THEN suppliers
    ELSE [c \in DOMAIN suppliers \cup {company} |->
             IF c = company THEN col_idx ELSE suppliers[c]]

\* The insertion and the one batch of one pass of the multi-document loop.
MultiCommit(g, data, existing, suppliers, nac, col_idx, matched, matched_reqs, new_products, next_row) ==
    Issued(g,
           [NoDocument EXCEPT
               !.op = "multi", !.ret = 1, !.data = data,
               !.col = col_idx, !.advanced = (col_idx = nac),
               !.insertion_row = next_row, !.n_new = Len(new_products),
               !.n_existing = Len(existing), !.matched = matched,
               !.matched_rows = {matched_reqs[i].row : i \in 1..Len(matched_reqs)}],
           StoreCalls(Len(new_products), next_row,
                      HeaderRequests(col_idx, data) \o matched_reqs
                      \o NewProductRequests(new_products, next_row, col_idx)
                      \o FreshSummaryRequests(1, HEADER_ROW + 1 + Len(existing)
                                                 + Len(new_products) + 2,
                                              col_idx + COLUMNS_PER_SUPPLIER - 1, data)))
    @@ [existing |-> AppendProducts(existing, new_products, next_row),
        suppliers |-> RememberSupplier(suppliers, data.company.s, col_idx),
        nac |-> IF col_idx = nac THEN nac + COLUMNS_PER_SUPPLIER ELSE nac]

MultiMatched(g, data, existing, suppliers, nac, col_idx, m) ==
    WithUnique(
        MultiCommit(g, data, existing, suppliers, nac, col_idx, m.matchedItems,
                    MatchedRequests(m.matchedItems, existing, col_idx, {}),
                    NewProducts(m.uniqueItems, existing),
                    HEADER_ROW + 1 + Len(existing)),
        m.uniqueItems)

\* One pass of the loop over all_json_data in the multi-document function:
\* the sheet and the three loop-carried values after it.
MultiDocResult(g, existing, suppliers, nac, data, var, answer) ==
    IF data.products = <<>>
    THEN [grid |-> g, existing |-> existing, suppliers |-> suppliers, nac |-> nac,
          did |-> [NoDocument EXCEPT !.op = "multi", !.data = data]]
    ELSE MultiMatched(g, data, existing, suppliers, nac,
                      ResolveColumn(suppliers, data.company.s, nac),
                      match_products(var, CleanNames(data.products), RefNames(existing),
                                     answer))

\* The records handed to the layout engine: outputs of validate_json_data.
S_Beta == <<"B", "e", "t", "a">>
S_Gadget == <<"G", "a", "d", "g", "e", "t">>

Entry(name, qty, unit, price, total) ==
    [obj |-> TRUE, name |-> JStr(name), quantity |-> qty, unit |-> unit,
     pricePerUnit |-> price, totalPrice |-> total]

E_1Widget == Entry(S_1Widget, JNum(200), JStr(S_pcs), JNum(1000), JNum(2000))
E_Widget == Entry(S_Widget, JNum(100), JAbsent, JNum(500), JAbsent)
E_Gadget == Entry(S_Gadget, JNum(300), JAbsent, JNum(700), JAbsent)

LayoutItemLists ==
    {<<>>, <<E_1Widget>>, <<E_Widget>>, <<E_Widget, E_Gadget>>, <<E_1Widget, E_Widget>>}

LayoutCompanies == {S_Acme, <<" ">> \o S_Acme, S_Beta}

LayoutRaw(company, items) ==
    [NonObject("dict", 0) EXCEPT
        !.company = JStr(company),
        !.products = [k |-> "list", n |-> Len(items), items |-> items]]

\* enhance_with_gemini returns the dict of the external model as it is: its
\* item name can still carry the enumeration prefix.
EnhancedRecord ==
    [validate_json_data(LayoutRaw(S_Acme, <<E_1Widget>>)) EXCEPT
        !.products[1].name = JStr(S_1Widget)]

LayoutRecords ==
    {validate_json_data(LayoutRaw(c, l)) : c \in LayoutCompanies, l \in LayoutItemLists}
    \cup {EnhancedRecord}

\* The record lists of the calls of the *_with_multiple_files functions.
MultiCompanies == {S_Acme, S_Beta}
MultiItemLists == {<<>>, <<E_1Widget>>, <<E_Widget, E_Gadget>>}
MultiRecords ==
    {validate_json_data(LayoutRaw(c, l)) : c \in MultiCompanies, l \in MultiItemLists}

MaxCalls == 2        \* most update calls in one run
MaxDocs == 2         \* most records in one multi-document call

RECURSIVE RecordLists(_)
RecordLists(n) ==
    IF n = 0 THEN {<<>>}
    ELSE LET shorter == RecordLists(n - 1)
         IN shorter \cup {Append(l, d) : l \in {t \in shorter : Len(t) = n - 1},
                                         d \in MultiRecords}

EmptyMap == [c \in {} |-> 0]

CleanIdle ==
    /\ c_in = <<>> /\ c_out = <<>> /\ c_out2 = <<>>
    /\ c_app = <<>> /\ c_app2 = <<>> /\ c_pc = "off"

ValidateIdle == v_in = <<>> /\ v_out = <<>> /\ v_pc = "off"

NoMatchResult == [matchedItems |-> <<>>, uniqueItems |-> <<>>]

\* What the external model does when match_products_with_gemini asks it:
\* generate_content raises ("raises"), the response has no text ("no_text"),
\* its text holds no JSON object or an empty one ("unparsable"), or it holds
\* an object, whose content is the answer ("object").
NoResponse == [kind |-> "none", answer |-> <<>>]

GeminiResponses(targets, refs) ==
    {[kind |-> k, answer |-> [i \in 1..Len(targets) |-> 0]] :
        k \in {"raises", "no_text", "unparsable"}}
    \cup {[kind |-> "object", answer |-> a] : a \in GeminiAnswers(targets, refs)}

\* The outcome of a matcher call: raised when the call ends in an exception,
\* called when the external model was asked.
Outcome(raised, called, matched, unique) ==
    [raised |-> raised, called |-> called, matchedItems |-> matched, uniqueItems |-> unique]

NoOutcome == Outcome(FALSE, FALSE, <<>>, <<>>)

Returned(called, m) == Outcome(FALSE, called, m.matchedItems, m.uniqueItems)

\* match_products_with_gemini of src/test.py, the external model included:
\* the two early returns precede the call; an exception of the call and a
\* text without an object give everything unique.
MatchWithGemini(targets, refs, resp) ==
    IF targets = <<>> \/ refs = <<>>
    THEN Returned(FALSE, match_products_with_gemini(targets, refs, resp.answer))
    ELSE IF resp.kind = "object"
    THEN Returned(TRUE, match_products_with_gemini(targets, refs, resp.answer))
    ELSE Outcome(FALSE, TRUE, <<>>, targets)

\* match_products_with_gemini of src/app.py: generate_content and
\* response.text.strip() stand outside any try.
match_products_with_gemini_app(targets, refs, resp) ==
    IF targets = <<>> \/ refs = <<>> THEN Outcome(FALSE, FALSE, <<>>, targets)
    ELSE IF resp.kind \in {"raises", "no_text"} THEN Outcome(TRUE, TRUE, <<>>, <<>>)
    ELSE IF resp.kind = "unparsable" THEN Outcome(FALSE, TRUE, <<>>, targets)
    ELSE Returned(TRUE, match_products_with_gemini(targets, refs, resp.answer))

MatchIdle ==
    /\ m_targets = <<>> /\ m_refs = <<>> /\ m_out = NoMatchResult /\ m_pc = "off"
    /\ m_resp = NoResponse /\ m_gem = NoOutcome /\ m_app = NoOutcome

NoDimensions == [labeled |-> [k \in {} |-> 0], sequence |-> <<>>]

DimsIdle ==
    /\ d_a = <<>> /\ d_b = <<>> /\ d_pa = NoDimensions /\ d_pb = NoDimensions
    /\ d_close = FALSE /\ d_pc = "off"

NoEntry == [fn |-> "none", n |-> 0]

NoFutures == [i \in {} |-> 0]

FilesIdle ==
    /\ total_files = 0 /\ future_to_file = NoFutures
    /\ data_list = <<>> /\ error_list = <<>> /\ f_pc = "off"

PoolIdle == p_total = 0 /\ p_futures = NoFutures /\ p_pc = "off"

WaitIdle ==
    /\ w_named = FALSE /\ w_elapsed = 0 /\ w_seen = "nothing"
    /\ w_last = "uploaded_file" /\ w_ret = "none" /\ w_pc = "off"

LayoutIdle ==
    /\ variant = "gsheet"
    /\ grid = EmptyGrid
    /\ l_pc = "idle"
    /\ l_queue = <<>>
    /\ existing_products = <<>>
    /\ existing_suppliers = EmptyMap
    /\ next_avail_col = 0
    /\ calls = 0
    /\ last = NoDocument
    /\ owner = EmptyMap
    /\ entry = NoEntry

Init ==
    /\ variant \in {"gsheet", "excel"}
    /\ grid = EmptyGrid
    /\ l_pc = "idle"
    /\ l_queue = <<>>
    /\ existing_products = <<>>
    /\ existing_suppliers = EmptyMap
    /\ next_avail_col = 0
    /\ calls = 0
    /\ last = NoDocument
    /\ owner = EmptyMap
    /\ entry = NoEntry
    /\ CleanIdle
    /\ ValidateIdle
    /\ MatchIdle
    /\ DimsIdle
    /\ FilesIdle
    /\ PoolIdle
    /\ WaitIdle

\* History: what the document did, and whether its company already owned a
\* block written by an earlier document.
Record(did) ==
    [did EXCEPT !.owned = (did.data.company.s \in DOMAIN owner),
                !.owned_col = IF did.data.company.s \in DOMAIN owner
                              THEN owner[did.data.company.s] ELSE 0]

OwnerAfter(did) ==
    IF did.ret = 0 \/ did.data.company.s \in DOMAIN owner THEN owner
    ELSE [c \in DOMAIN owner \cup {did.data.company.s} |->
             IF c = did.data.company.s THEN did.col ELSE owner[c]]

SingleApply(r, fn) ==
    /\ grid' = r.grid
    /\ entry' = [fn |-> fn, n |-> 1]
    /\ last' = Record(r.did)
    /\ owner' = OwnerAfter(r.did)
    /\ calls' = calls + 1
    /\ UNCHANGED <<variant, l_pc, l_queue, existing_products, existing_suppliers,
                   next_avail_col, cvars, vvars, mvars, dvars, pvars, wvars>>

\* One pass of the multi-document loop in the place of the single-document
\* function.
RoutedToLoop(data, fn) ==
    \E answer \in Answers(variant, CleanNames(data.products),
                          RefNames(ScanProducts(ensure_first_three_rows_exist(grid)))) :
        SingleApply(MultiDocResult(ensure_first_three_rows_exist(grid),
                                   ScanProducts(ensure_first_three_rows_exist(grid)),
                                   ScanSuppliers(ensure_first_three_rows_exist(grid)),
                                   find_next_available_column(ensure_first_three_rows_exist(grid)),
                                   data, variant, answer), fn)

\* The body of the single-document function, run on the current sheet.
SinglePath(data, fn) ==
    \E answer \in Answers(variant, CleanNames(data.products),
                          RefNames(ScanProducts(ensure_first_three_rows_exist(grid)))) :
        SingleApply(SingleResult(grid, data, variant, answer), fn)

\* update_google_sheet_for_single_file / update_excel_for_single_file
UpdateForSingleFile ==
    /\ l_pc = "idle"
    /\ calls < MaxCalls
    /\ \E data \in LayoutRecords : SinglePath(data, "single")
    /\ UNCHANGED fvars

\* update_google_sheet_with_multiple_files / update_excel_with_multiple_files,
\* up to the loop: a list of one record goes to the single-document function.
MultipleFilesCall(docs) ==
    IF Len(docs) = 1 THEN SinglePath(docs[1], "multiple")
    ELSE LET g == ensure_first_three_rows_exist(grid)
         IN /\ grid' = g
            /\ existing_products' = ScanProducts(g)
            /\ existing_suppliers' = ScanSuppliers(g)
            /\ next_avail_col' = find_next_available_column(g)
            /\ l_queue' = docs
            /\ l_pc' = "multi"
            /\ calls' = calls + 1
            /\ entry' = [fn |-> "multiple", n |-> Len(docs)]
            /\ UNCHANGED <<variant, last, owner, cvars, vvars, mvars, dvars, pvars, wvars>>

UpdateWithMultipleFiles ==
    /\ l_pc = "idle"
    /\ calls < MaxCalls
    /\ \E docs \in RecordLists(MaxDocs) : MultipleFilesCall(docs)
    /\ UNCHANGED fvars

MultiApply(r) ==
    /\ grid' = r.grid
    /\ existing_products' = r.existing
    /\ existing_suppliers' = r.suppliers
    /\ next_avail_col' = r.nac
    /\ last' = Record(r.did)
    /\ owner' = OwnerAfter(r.did)
    /\ l_queue' = Tail(l_queue)
    /\ UNCHANGED <<variant, l_pc, calls, entry, cvars, vvars, mvars, dvars, fvars, pvars, wvars>>

\* One pass of the loop over all_json_data.
MultiDocument ==
    /\ l_pc = "multi"
    /\ l_queue # <<>>
    /\ \E answer \in Answers(variant, CleanNames(Head(l_queue).products),
                             RefNames(existing_products)) :
          MultiApply(MultiDocResult(grid, existing_products, existing_suppliers,
                                    next_avail_col, Head(l_queue), variant, answer))

\* return len(all_json_data)
MultiReturn ==
    /\ l_pc = "multi"
    /\ l_queue = <<>>
    /\ l_pc' = "idle"
    /\ existing_products' = <<>>
    /\ existing_suppliers' = EmptyMap
    /\ next_avail_col' = 0
    /\ UNCHANGED <<variant, grid, l_queue, calls, last, owner, entry, cvars, vvars, mvars,
                   dvars, fvars, pvars, wvars>>

Next == UpdateForSingleFile \/ UpdateWithMultipleFiles \/ MultiDocument \/ MultiReturn

Spec == Init /\ [][Next]_vars

(***************************************************************************)
(* Specification SpecRows: the layout engine again, from the empty sheet,  *)
(* with three calls and records of one company over three product names.   *)
(***************************************************************************)
MaxRowCalls == 3     \* most update calls in one run of SpecRows

S_Bolt == <<"B", "o", "l", "t">>
E_Bolt == Entry(S_Bolt, JNum(900), JAbsent, JNum(200), JAbsent)

RowRecords ==
    {validate_json_data(LayoutRaw(S_Acme, l)) :
        l \in {<<E_Widget>>, <<E_Gadget>>, <<E_Bolt>>}}

RowsSingle ==
    /\ l_pc = "idle"
    /\ calls < MaxRowCalls
    /\ \E data \in RowRecords : SinglePath(data, "single")
    /\ UNCHANGED fvars

RowsMultiple ==
    /\ l_pc = "idle"
    /\ calls < MaxRowCalls
    /\ \E a \in RowRecords, b \in RowRecords : MultipleFilesCall(<<a, b>>)
    /\ UNCHANGED fvars

NextRows == RowsSingle \/ RowsMultiple \/ MultiDocument \/ MultiReturn

SpecRows == Init /\ [][NextRows]_vars

(***************************************************************************)
(* Specification SpecSheet: one update call on a sheet that was prepared   *)
(* by hand: a master list in column 2 from row 4 on, with or without       *)
(* blank rows and summary labels, and cells in the first three rows.       *)
(***************************************************************************)
MaxSheetCalls == 1   \* update calls on a prepared sheet

L_Subtotal == SUMMARY_LABELS[1]

\* Column 2 from row 4 on, top to bottom; <<>> is a blank cell.
SheetMasters ==
    {<<>>,
     <<S_Widget>>,
     <<S_1Widget>>,
     <<S_Widget, <<>>, S_Gadget>>,
     <<<<>>, S_Widget>>,
     <<S_Widget, L_Subtotal>>,
     <<S_Widget, <<" ">> \o L_Subtotal \o <<" ">>, S_Gadget>>,
     <<L_Subtotal, <<>>, S_Widget>>,
     <<S_Widget>> \o SUMMARY_LABELS}

\* Cells of the first three rows.
SheetTops ==
    {EmptyGrid,
     <<1, 3>> :> JStr(S_Acme),
     (<<1, 3>> :> JStr(S_Acme)) @@ (<<1, 7>> :> JStr(S_Beta)),
     <<2, 5>> :> JStr(S_pcs),
     (<<1, 3>> :> JStr(S_Acme)) @@ (<<3, 7>> :> JStr(S_pcs)),
     <<1, 4>> :> JStr(S_Beta),
     (<<1, 1>> :> JStr(S_pcs)) @@ (<<3, 2>> :> JStr(S_pcs))}

MasterCells(master) ==
    [p \in {<<HEADER_ROW + i, ITEM_MASTER_LIST_COL>> : i \in {k \in 1..Len(master) : master[k] # <<>>}}
        |-> JStr(master[p[1] - HEADER_ROW])]

PreparedSheets == {MasterCells(master) @@ top : master \in SheetMasters, top \in SheetTops}

\* An item whose name is the first summary label.
E_Subtotal == Entry(L_Subtotal, JNum(100), JAbsent, JNum(500), JAbsent)

SheetRecords ==
    {validate_json_data(LayoutRaw(S_Acme, <<E_Widget>>)),
     validate_json_data(LayoutRaw(S_Beta, <<E_Gadget, E_Bolt>>)),
     validate_json_data(LayoutRaw(S_Beta, <<>>)),
     validate_json_data(LayoutRaw(S_Acme, <<E_Subtotal>>))}

InitSheet ==
    /\ variant \in {"gsheet", "excel"}
    /\ grid \in PreparedSheets
    /\ l_pc = "idle"
    /\ l_queue = <<>>
    /\ existing_products = <<>>
    /\ existing_suppliers = EmptyMap
    /\ next_avail_col = 0
    /\ calls = 0
    /\ last = NoDocument
    /\ owner = EmptyMap
    /\ entry = NoEntry
    /\ CleanIdle
    /\ ValidateIdle
    /\ MatchIdle
    /\ DimsIdle
    /\ FilesIdle
    /\ PoolIdle
    /\ WaitIdle

SheetSingle ==
    /\ l_pc = "idle"
    /\ calls < MaxSheetCalls
    /\ \E data \in SheetRecords : SinglePath(data, "single")
    /\ UNCHANGED fvars

SheetMultiple ==
    /\ l_pc = "idle"
    /\ calls < MaxSheetCalls
    /\ \E a \in SheetRecords, b \in SheetRecords : MultipleFilesCall(<<a, b>>)
    /\ UNCHANGED fvars

NextSheet == SheetSingle \/ SheetMultiple \/ MultiDocument \/ MultiReturn

SpecSheet == InitSheet /\ [][NextSheet]_vars

(***************************************************************************)
(* Specification SpecApp: update_google_sheet_for_single_file of           *)
(* src/app.py and its multi-document function, called on a prepared        *)
(* sheet.  Where the text is                                               *)
(* that of src/test.py the operators of the layout engine above are used;   *)
(* the scan of row 1, the next free column, the cleaning of names, the      *)
(* filter of the unique items and the matcher are its own.                  *)
(***************************************************************************)
MaxAppCalls == 1   \* update calls of src/app.py

\* find_next_available_column of src/app.py: the column after the last
\* non-blank cell of the first three rows.
find_next_available_column_app(g) == last_non_empty_col_in_top_rows(g) + 1

\* The indexes range(ITEM_MASTER_LIST_COL, len(sheet_values[0]), 4) runs over:
\* positions in the list of a row, counted from 0.
SupplierIndexes(g) ==
    {i \in ITEM_MASTER_LIST_COL..(LastCol(g) - 1) :
        (i - ITEM_MASTER_LIST_COL) % COLUMNS_PER_SUPPLIER = 0}

\* sheet_values[COMPANY_NAME_ROW - 1][col_idx].strip(): the cell of column
\* col_idx + 1.
SupplierAtIndex(g, i) == strip(CellText(g, COMPANY_NAME_ROW, i + 1))

\* existing_suppliers of src/app.py: the name found at index col_idx is
\* recorded with col_idx.
ScanSuppliersApp(g) ==
    [name \in {SupplierAtIndex(g, i) : i \in SupplierIndexes(g)} \ {<<>>} |->
        SetMax({i \in SupplierIndexes(g) : SupplierAtIndex(g, i) = name})]

\* existing_products of src/app.py.
ScanProductsApp(g) ==
    [i \in 1..Len(ScanProducts(g)) |->
        [name |-> clean_product_name_app(MasterText(g, ScanProducts(g)[i].row)),
         row |-> ScanProducts(g)[i].row]]

CleanNamesApp(products) ==
    [i \in 1..Len(products) |->
        IF Truthy(products[i].name)
        THEN [products[i] EXCEPT !.name = JStr(clean_product_name_app(products[i].name.s))]
        ELSE products[i]]

\* The loop over unique_items of src/app.py: an item needs a name and a
\* quantity.
RECURSIVE NewProductsApp(_, _)
NewProductsApp(unique, existing) ==
    IF unique = <<>> THEN <<>>
    ELSE LET item == [Head(unique) EXCEPT !.name = JStr(clean_product_name_app(@.s))]
         IN (IF \/ Head(unique).name.k = "absent" \/ Head(unique).quantity.k = "absent"
                \/ \E i \in 1..Len(existing) : existing[i].name = item.name.s
             THEN <<>> ELSE <<item>>)
            \o NewProductsApp(Tail(unique), existing)

\* The function after its scan: m is the matcher's outcome.  An exception of
\* the matcher leaves the function before its batch is sent.
AppMatched(g, data, existing, nac, col_idx, m) ==
    IF m.raised THEN [grid |-> g, did |-> [NoDocument EXCEPT !.op = "raised", !.data = data]]
    ELSE WithUnique(
             SingleCommit(g, data, existing, ScanSummary(g), FirstSummaryRow(g), nac, col_idx,
                          m.matchedItems,
                          MatchedRequests(m.matchedItems, existing, col_idx, {}),
                          NewProductsApp(m.uniqueItems, existing),
                          IF FirstSummaryRow(g) > 0 THEN FirstSummaryRow(g)
                          ELSE HEADER_ROW + 1 + Len(existing)),
             m.uniqueItems)

AppOnSheet(g, data, resp) ==
    IF data.products = <<>>
    THEN [grid |-> g, did |-> [NoDocument EXCEPT !.op = "single", !.data = data]]
    ELSE AppMatched(g, data, ScanProductsApp(g), find_next_available_column_app(g),
                    ResolveColumn(ScanSuppliersApp(g), data.company.s,
                                  find_next_available_column_app(g)),
                    match_products_with_gemini_app(CleanNamesApp(data.products),
                                                   RefNames(ScanProductsApp(g)), resp))

\* existing_products of the multi-document function of src/app.py: every
\* non-blank cell of column 2 from row 4 on.
ScanAllRowsApp(g) ==
    [i \in 1..Len(ProductsOfRows(g, ProductRows(g) \cup SummaryRows(g))) |->
        [name |-> clean_product_name_app(
                      MasterText(g, ProductsOfRows(g, ProductRows(g) \cup SummaryRows(g))[i].row)),
         row |-> ProductsOfRows(g, ProductRows(g) \cup SummaryRows(g))[i].row]]

\* if col_idx not in existing_suppliers.values(): existing_suppliers[company_name] = col_idx
RememberSupplierApp(suppliers, company, col_idx) ==
    IF \E c \in DOMAIN suppliers : suppliers[c] = col_idx THEN suppliers
    ELSE [c \in DOMAIN suppliers \cup {company} |->
             IF c = company THEN col_idx ELSE suppliers[c]]

\* One pass of the loop of the multi-document function of src/app.py; an
\* exception of the matcher ends the call (raised).
AppMultiMatched(g, data, existing, suppliers, nac, col_idx, m) ==
    IF m.raised
    THEN [grid |-> g, existing |-> existing, suppliers |-> suppliers, nac |-> nac,
          raised |-> TRUE, did |-> [NoDocument EXCEPT !.op = "raised", !.data = data]]
    ELSE [raised |-> FALSE] @@
         [WithUnique(
              MultiCommit(g, data, existing, suppliers, nac, col_idx, m.matchedItems,
                          MatchedRequests(m.matchedItems, existing, col_idx, {}),
                          NewProductsApp(m.uniqueItems, existing),
                          HEADER_ROW + 1 + Len(existing)),
              m.uniqueItems)
          EXCEPT !.suppliers = RememberSupplierApp(suppliers, data.company.s, col_idx)]

AppMultiDocResult(g, existing, suppliers, nac, data, resp) ==
    IF data.products = <<>>
    THEN [grid |-> g, existing |-> existing, suppliers |-> suppliers, nac |-> nac,
          raised |-> FALSE, did |-> [NoDocument EXCEPT !.op = "multi", !.data = data]]
    ELSE AppMultiMatched(g, data, existing, suppliers, nac,
                         ResolveColumn(suppliers, data.company.s, nac),
                         match_products_with_gemini_app(CleanNamesApp(data.products),
                                                        RefNames(existing), resp))

\* The prepared sheets with a master list of up to three rows.
AppSheets ==
    {MasterCells(master) @@ top : master \in {m \in SheetMasters : Len(m) <= 3},
                                  top \in SheetTops}

AppRecords == SheetRecords

\* The records of a multi-document call.
AppPairs ==
    {validate_json_data(LayoutRaw(S_Acme, <<E_Widget>>)),
     validate_json_data(LayoutRaw(S_Beta, <<E_Gadget>>))}

InitApp ==
    /\ variant = "app"
    /\ grid \in AppSheets
    /\ l_pc = "idle"
    /\ l_queue = <<>>
    /\ existing_products = <<>>
    /\ existing_suppliers = EmptyMap
    /\ next_avail_col = 0
    /\ calls = 0
    /\ last = NoDocument
    /\ owner = EmptyMap
    /\ entry = NoEntry
    /\ CleanIdle
    /\ ValidateIdle
    /\ MatchIdle
    /\ DimsIdle
    /\ FilesIdle
    /\ PoolIdle
    /\ WaitIdle

AppSinglePath(data, fn) ==
    \E resp \in GeminiResponses(CleanNamesApp(data.products),
                                RefNames(ScanProductsApp(ensure_first_three_rows_exist(grid)))) :
        SingleApply(AppOnSheet(ensure_first_three_rows_exist(grid), data, resp), fn)

\* update_google_sheet_for_single_file of src/app.py
AppSingle ==
    /\ l_pc = "idle"
    /\ calls < MaxAppCalls
    /\ \E data \in AppRecords : AppSinglePath(data, "single")
    /\ UNCHANGED fvars

\* update_google_sheet_with_multiple_files of src/app.py, up to the loop.
AppMultipleFilesCall(docs) ==
    IF Len(docs) = 1 THEN AppSinglePath(docs[1], "multiple")
    ELSE LET g == ensure_first_three_rows_exist(grid)
         IN /\ grid' = g
            /\ existing_products' = ScanAllRowsApp(g)
            /\ existing_suppliers' = ScanSuppliersApp(g)
            /\ next_avail_col' = find_next_available_column_app(g)
            /\ l_queue' = docs
            /\ l_pc' = "multi"
            /\ calls' = calls + 1
            /\ entry' = [fn |-> "multiple", n |-> Len(docs)]
            /\ UNCHANGED <<variant, last, owner, cvars, vvars, mvars, dvars, pvars, wvars>>

AppMultiple ==
    /\ l_pc = "idle"
    /\ calls < MaxAppCalls
    /\ \E a \in AppPairs, b \in AppPairs : AppMultipleFilesCall(<<a, b>>)
    /\ UNCHANGED fvars

\* The exception leaves the function.
AppRaise(r) ==
    /\ last' = Record(r.did)
    /\ l_pc' = "idle"
    /\ l_queue' = <<>>
    /\ existing_products' = <<>>
    /\ existing_suppliers' = EmptyMap
    /\ next_avail_col' = 0
    /\ UNCHANGED <<variant, grid, calls, owner, entry, cvars, vvars, mvars, dvars, fvars, pvars, wvars>>

\* One pass of the loop over all_json_data in src/app.py.
AppMultiDocument ==
    /\ l_pc = "multi"
    /\ l_queue # <<>>
    /\ \E resp \in GeminiResponses(CleanNamesApp(Head(l_queue).products),
                                   RefNames(existing_products)) :
          LET r == AppMultiDocResult(grid, existing_products, existing_suppliers,
                                     next_avail_col, Head(l_queue), resp)
          IN IF r.raised THEN AppRaise(r) ELSE MultiApply(r)

NextApp == AppSingle \/ AppMultiple \/ AppMultiDocument \/ MultiReturn

SpecApp == InitApp /\ [][NextApp]_vars

(***************************************************************************)
(* Specification SpecClean: clean_product_name applied twice to a fuzzed   *)
(* name.                                                                   *)
(***************************************************************************)
CleanAlphabet == {" ", "1", ".", ")", "W"}


InitClean ==
    /\ c_in \in StringsUpTo(CleanAlphabet, MaxNameLen)
    /\ c_out = <<>> /\ c_out2 = <<>> /\ c_app = <<>> /\ c_app2 = <<>>
    /\ c_pc = "start"
    /\ ValidateIdle
    /\ LayoutIdle
    /\ MatchIdle
    /\ DimsIdle
    /\ FilesIdle
    /\ PoolIdle
    /\ WaitIdle

CleanOnce ==
    /\ c_pc = "start"
    /\ c_out' = clean_product_name(c_in)
    /\ c_app' = clean_product_name_app(c_in)
    /\ c_pc' = "once"
    /\ UNCHANGED <<c_in, c_out2, c_app2, vvars, lvars, mvars, dvars, fvars, pvars, wvars>>

CleanTwice ==
    /\ c_pc = "once"
    /\ c_out2' = clean_product_name(c_out)
    /\ c_app2' = clean_product_name_app(c_app)
    /\ c_pc' = "twice"
    /\ UNCHANGED <<c_in, c_out, c_app, vvars, lvars, mvars, dvars, fvars, pvars, wvars>>

NextClean == CleanOnce \/ CleanTwice

SpecClean == InitClean /\ [][NextClean]_vars

(***************************************************************************)
(* Specification SpecValidate: validate_json_data applied to a raw input.  *)
(***************************************************************************)
InitValidate ==
    /\ v_in \in RawInputs
    /\ v_out = <<>>
    /\ v_pc = "start"
    /\ CleanIdle
    /\ LayoutIdle
    /\ MatchIdle
    /\ DimsIdle
    /\ FilesIdle
    /\ PoolIdle
    /\ WaitIdle

Validate ==
    /\ v_pc = "start"
    /\ v_out' = validate_json_data(v_in)
    /\ v_pc' = "done"
    /\ UNCHANGED <<v_in, cvars, lvars, mvars, dvars, fvars, pvars, wvars>>

NextValidate == Validate

SpecValidate == InitValidate /\ [][NextValidate]_vars

(***************************************************************************)
(* Specification SpecMatch: match_products_smart applied to every list of  *)
(* at most MaxTargets targets and every list of at most MaxRefs reference  *)
(* names drawn from MatchNames.                                            *)
(***************************************************************************)
MaxTargets == 2      \* most targets in a matcher run
MaxRefs == 2         \* most references in a matcher run

MatchNames ==
    {S_Widget, S_1Widget,
     <<"h", "i", "n", "g", "e">>,
     <<"H", "i", "n", "g", "e", " ", "4", "0", "x", "5", "0">>,
     <<"s", "t", "e", "e", "l", " ", "h", "i", "n", "g", "e", " ", "4", "0", "x", "9", "0">>,
     <<"s", "t", "e", "e", "l", " ", "p", "u", "l", "l">>}

\* Target i of a run: its figures tell it from the other targets.
MatchItem(name, i) ==
    [name |-> JStr(name), quantity |-> JNum(100 * i), unit |-> JStr(DefaultUnit),
     pricePerUnit |-> JNum(500), totalPrice |-> JNum(500 * i)]

RECURSIVE NameLists(_)
NameLists(n) ==
    IF n = 0 THEN {<<>>}
    ELSE LET shorter == NameLists(n - 1)
         IN shorter \cup {Append(l, x) : l \in {t \in shorter : Len(t) = n - 1},
                                         x \in MatchNames}

InitMatch ==
    /\ m_targets \in {[i \in 1..Len(l) |-> MatchItem(l[i], i)] : l \in NameLists(MaxTargets)}
    /\ m_refs \in NameLists(MaxRefs)
    /\ m_out = NoMatchResult
    /\ m_resp = NoResponse /\ m_gem = NoOutcome /\ m_app = NoOutcome
    /\ m_pc = "ready"
    /\ CleanIdle
    /\ ValidateIdle
    /\ LayoutIdle
    /\ DimsIdle
    /\ FilesIdle
    /\ PoolIdle
    /\ WaitIdle

Match ==
    /\ m_pc = "ready"
    /\ m_out' = match_products_smart(m_targets, m_refs)
    /\ \E resp \in GeminiResponses(m_targets, m_refs) :
          /\ m_resp' = resp
          /\ m_gem' = MatchWithGemini(m_targets, m_refs, resp)
          /\ m_app' = match_products_with_gemini_app(m_targets, m_refs, resp)
    /\ m_pc' = "done"
    /\ UNCHANGED <<m_targets, m_refs, cvars, vvars, lvars, dvars, fvars, pvars, wvars>>

NextMatch == Match

SpecMatch == InitMatch /\ [][NextMatch]_vars

(***************************************************************************)
(* Specification SpecDims: _parse_dimensions applied to two texts and      *)
(* _dims_close to the results.  Lengths are thousandths of a millimetre.   *)
(***************************************************************************)
D_4672x970mm == <<"4", "6", "7", "2", "x", "9", "7", "0", " ", "m", "m">>      \* "4672x970 mm"
D_4672x970m == <<"4", ".", "6", "7", "2", "x", "0", ".", "9", "7", " ", "m">>      \* "4.672x0.97 m"
D_4700x970 == <<"4", "7", "0", "0", "x", "9", "7", "0", "m", "m">>      \* "4700x970mm"
D_5000x970 == <<"5", "0", "0", "0", "x", "9", "7", "0", "m", "m">>      \* "5000x970mm"

DimTexts ==
    {D_4672x970mm, D_4672x970m, D_4700x970, D_5000x970,
     <<"9", "7", "0", "x", "4", "6", "7", "2">>,
     <<"w", "9", "0", "0", " ", "h", "2", "0", "0", "0">>,
     <<"w", "9", "0", "5", " ", "h", "2", "0", "0", "0">>,
     <<"w", "1", "0", "0", "0", " ", "h", "2", "0", "0", "0">>,
     <<"4", "0", "x", "5", "0", "x", "6", "0">>,
     <<"4", "0", "x", "5", "0">>,
     <<"h", "i", "n", "g", "e">>,
     <<"t", " ", "6", " ", "m", "m", " ", "4", "0", "x", "5", "0">>}

InitDims ==
    /\ d_a \in DimTexts
    /\ d_b \in DimTexts
    /\ d_pa = NoDimensions /\ d_pb = NoDimensions
    /\ d_close = FALSE
    /\ d_pc = "ready"
    /\ CleanIdle
    /\ ValidateIdle
    /\ LayoutIdle
    /\ MatchIdle
    /\ FilesIdle
    /\ PoolIdle
    /\ WaitIdle

\* _dims_close(_parse_dimensions(a), _parse_dimensions(b))
DimsClose ==
    /\ d_pc = "ready"
    /\ d_pa' = parse_dimensions(d_a)
    /\ d_pb' = parse_dimensions(d_b)
    /\ d_close' = dims_close(parse_dimensions(d_a), parse_dimensions(d_b))
    /\ d_pc' = "done"
    /\ UNCHANGED <<d_a, d_b, cvars, vvars, lvars, mvars, fvars, pvars, wvars>>

NextDims == DimsClose

SpecDims == InitDims /\ [][NextDims]_vars

(***************************************************************************)
(* Specification SpecFiles: one call of process_files (src/test.py,        *)
(* src/excelOutput.py).  The worker threads of the pool run process_file   *)
(* on one document each; the calling thread collects the results as they   *)
(* complete and then updates the sheet.                                    *)
(***************************************************************************)
MaxFiles == 3        \* most documents in one call of process_files

\* What one call of the extraction model gives after extract_json_from_text:
\* the call raises, the text holds no JSON object, or a dict.
ModelRaises == [kind |-> "raises", raw |-> NonObject("dict", 0)]
NoJson == [kind |-> "none", raw |-> NonObject("dict", 0)]
Extractions ==
    {ModelRaises, NoJson,
     [kind |-> "dict", raw |-> LayoutRaw(S_Acme, <<E_Widget>>)],
     [kind |-> "dict", raw |-> LayoutRaw(S_Beta, <<>>)],
     [kind |-> "dict", raw |-> LayoutRaw(S_Beta, <<E_Gadget>>)]}

\* What the validation model answers to enhance_with_gemini.
Enhancements == {"raises", "none", "dict"}

TaskRaised == [kind |-> "raised", data |-> DefaultRecord]
TaskError == [kind |-> "error", data |-> DefaultRecord]
TaskData(d) == [kind |-> "data", data |-> d]

\* try: generate_content ... except: return json_data;
\* enhanced = extract_json_from_text(text) or json_data
enhance_with_gemini(json_data, enh) == IF enh = "dict" THEN EnhancedRecord ELSE json_data

\* d = validate_json_data(d); d = enhance_with_gemini(d); result = {"data": d}
ValidatedResult(v, enh) ==
    IF v.raised THEN TaskRaised ELSE TaskData(enhance_with_gemini(v, enh))

\* if not d or not d.get("products"): the second model is asked.
FirstOrFallback(flash, pro) ==
    IF flash.kind = "raises" THEN flash
    ELSE IF flash.kind = "dict" /\ ProductsTruthy(flash.raw.products) THEN flash
    ELSE pro

ExtractedResult(x, enh) ==
    IF x.kind = "raises" THEN TaskRaised
    ELSE IF x.kind = "none" THEN TaskError
    ELSE ValidatedResult(validate_json_data(x.raw), enh)

\* process_file: what the task returns, or that it raised.  files is "raises"
\* when open, upload_file or delete_file raises.
process_file(files, flash, pro, enh) ==
    IF files = "raises" THEN TaskRaised ELSE ExtractedResult(FirstOrFallback(flash, pro), enh)

PendingTask == [phase |-> "pending", result |-> TaskError, listed |-> "none"]

\* A pool with one worker for every document.
WorkerPerFile(total) == total

\* ThreadPoolExecutor(max_workers=min(total_files, 10))
max_workers(total) == IF total < 10 THEN total ELSE 10

Running(futures) == {i \in DOMAIN futures : futures[i].phase = "running"}

AllDone(futures) == \A i \in DOMAIN futures : futures[i].phase = "done"

InitFiles ==
    /\ total_files \in 0..MaxFiles
    /\ future_to_file = NoFutures
    /\ data_list = <<>> /\ error_list = <<>>
    /\ f_pc = "start"
    /\ variant \in {"gsheet", "excel"}
    /\ grid = EmptyGrid
    /\ l_pc = "idle"
    /\ l_queue = <<>>
    /\ existing_products = <<>>
    /\ existing_suppliers = EmptyMap
    /\ next_avail_col = 0
    /\ calls = 0
    /\ last = NoDocument
    /\ owner = EmptyMap
    /\ entry = NoEntry
    /\ CleanIdle
    /\ ValidateIdle
    /\ MatchIdle
    /\ DimsIdle
    /\ PoolIdle
    /\ WaitIdle

\* The pool is created and every document is submitted; a pool of no worker
\* is refused with ValueError.
Submit ==
    /\ f_pc = "start"
    /\ IF total_files = 0
       THEN f_pc' = "raised" /\ UNCHANGED future_to_file
       ELSE /\ future_to_file' = [i \in 1..total_files |-> PendingTask]
            /\ f_pc' = "collecting"
    /\ UNCHANGED <<total_files, data_list, error_list, cvars, vvars, lvars, mvars, dvars, pvars, wvars>>

\* A worker thread can take task i: it is the oldest waiting task, and the
\* pool has fewer than max_workers tasks running.
CanBegin(futures, total, i) ==
    /\ i \in DOMAIN futures
    /\ futures[i].phase = "pending"
    /\ \A j \in 1..(i - 1) : futures[j].phase # "pending"
    /\ Cardinality(Running(futures)) < max_workers(total)

TaskBegin(i) ==
    /\ f_pc \in {"collecting", "unwinding"}
    /\ CanBegin(future_to_file, total_files, i)
    /\ future_to_file' = [future_to_file EXCEPT ![i].phase = "running"]
    /\ UNCHANGED <<total_files, data_list, error_list, f_pc, cvars, vvars, lvars, mvars, dvars,
                   pvars, wvars>>

\* process_file returns or raises in its worker thread.
TaskFinish(i) ==
    /\ f_pc \in {"collecting", "unwinding"}
    /\ i \in DOMAIN future_to_file
    /\ future_to_file[i].phase = "running"
    /\ \E files \in {"ok", "raises"}, flash \in Extractions, pro \in Extractions,
          enh \in Enhancements :
          future_to_file' = [future_to_file EXCEPT
                                ![i].phase = "done",
                                ![i].result = process_file(files, flash, pro, enh)]
    /\ UNCHANGED <<total_files, data_list, error_list, f_pc, cvars, vvars, lvars, mvars, dvars,
                   pvars, wvars>>

\* One pass of the loop over as_completed: future.result() raises what the
\* task raised, otherwise the result goes to one of the two lists.
Collect(i) ==
    /\ f_pc = "collecting"
    /\ i \in DOMAIN future_to_file
    /\ future_to_file[i].phase = "done"
    /\ future_to_file[i].listed = "none"
    /\ future_to_file' = [future_to_file EXCEPT ![i].listed = future_to_file[i].result.kind]
    /\ f_pc' = IF future_to_file[i].result.kind = "raised" THEN "unwinding" ELSE f_pc
    /\ error_list' = IF future_to_file[i].result.kind = "error"
                     THEN Append(error_list, i) ELSE error_list
    /\ data_list' = IF future_to_file[i].result.kind = "data"
                    THEN Append(data_list, future_to_file[i].result.data) ELSE data_list
    /\ UNCHANGED <<total_files, cvars, vvars, lvars, mvars, dvars, pvars, wvars>>

\* The exception leaves the with block of the pool, which waits for every
\* task, and then process_files.
Unwind ==
    /\ f_pc = "unwinding"
    /\ AllDone(future_to_file)
    /\ f_pc' = "raised"
    /\ UNCHANGED <<total_files, future_to_file, data_list, error_list, cvars, vvars, lvars,
                   mvars, dvars, pvars, wvars>>

Collected == \A i \in DOMAIN future_to_file : future_to_file[i].listed # "none"

\* if data_list: update_*_with_multiple_files(ws, data_list)
UpdateGrid ==
    /\ f_pc = "collecting"
    /\ Collected
    /\ data_list # <<>>
    /\ MultipleFilesCall(data_list)
    /\ f_pc' = "updating"
    /\ UNCHANGED <<total_files, future_to_file, data_list, error_list>>

\* return data_list, error_list
Return ==
    /\ \/ f_pc = "collecting" /\ Collected /\ data_list = <<>>
       \/ f_pc = "updating" /\ l_pc = "idle"
    /\ f_pc' = "returned"
    /\ UNCHANGED <<total_files, future_to_file, data_list, error_list, cvars, vvars, lvars,
                   mvars, dvars, pvars, wvars>>

NextFiles ==
    \/ Submit
    \/ \E i \in 1..MaxFiles : TaskBegin(i)
    \/ \E i \in 1..MaxFiles : TaskFinish(i)
    \/ \E i \in 1..MaxFiles : Collect(i)
    \/ Unwind
    \/ UpdateGrid
    \/ MultiDocument
    \/ MultiReturn
    \/ Return

SpecFiles == InitFiles /\ [][NextFiles]_vars

(***************************************************************************)
(* Specification SpecPool: the thread pool of process_files alone, with    *)
(* more documents than workers; what the tasks return is left out.         *)
(***************************************************************************)
MaxPoolFiles == 11   \* most documents handed to the pool

InitPool ==
    /\ p_total \in 0..MaxPoolFiles
    /\ p_futures = NoFutures
    /\ p_pc = "start"
    /\ CleanIdle
    /\ ValidateIdle
    /\ LayoutIdle
    /\ MatchIdle
    /\ DimsIdle
    /\ FilesIdle
    /\ WaitIdle

\* ThreadPoolExecutor(max_workers=min(total_files, 10)) and the submissions.
PoolSubmit ==
    /\ p_pc = "start"
    /\ IF p_total = 0
       THEN p_pc' = "refused" /\ UNCHANGED p_futures
       ELSE /\ p_futures' = [i \in 1..p_total |-> [phase |-> "pending"]]
            /\ p_pc' = "running"
    /\ UNCHANGED <<p_total, cvars, vvars, lvars, mvars, dvars, fvars, wvars>>

PoolBegin(i) ==
    /\ p_pc = "running"
    /\ CanBegin(p_futures, p_total, i)
    /\ p_futures' = [p_futures EXCEPT ![i].phase = "running"]
    /\ UNCHANGED <<p_total, p_pc, cvars, vvars, lvars, mvars, dvars, fvars, wvars>>

PoolFinish(i) ==
    /\ p_pc = "running"
    /\ i \in DOMAIN p_futures
    /\ p_futures[i].phase = "running"
    /\ p_futures' = [p_futures EXCEPT ![i].phase = "done"]
    /\ UNCHANGED <<p_total, p_pc, cvars, vvars, lvars, mvars, dvars, fvars, wvars>>

NextPool ==
    \/ PoolSubmit
    \/ \E i \in 1..MaxPoolFiles : PoolBegin(i)
    \/ \E i \in 1..MaxPoolFiles : PoolFinish(i)

SpecPool == InitPool /\ [][NextPool]_vars

(***************************************************************************)
(* Specification SpecWait: one call of _wait_for_file_active.  Time is in  *)
(* whole seconds; a call of genai.get_file takes up to MaxPollDelay        *)
(* seconds and returns a file in some state or raises.  SpecWaitFair adds  *)
(* that the thread keeps running: get_file and sleep come back.            *)
(***************************************************************************)
WAIT_TIMEOUT == 180  \* timeout=180
WAIT_POLL == 1       \* poll=1.0
MaxPollDelay == 2    \* most seconds one call of get_file takes

\* What one poll gives: the call raises, or the state of the file returned
\* ("unset" when it has no state attribute).
PollOutcomes == {"raised", "ACTIVE", "PROCESSING", "FAILED", "unset"}

InitWait ==
    /\ w_named \in BOOLEAN
    /\ w_elapsed = 0
    /\ w_seen = "nothing"
    /\ w_last = "uploaded_file"
    /\ w_ret = "none"
    /\ w_pc = "start"
    /\ CleanIdle
    /\ ValidateIdle
    /\ LayoutIdle
    /\ MatchIdle
    /\ DimsIdle
    /\ FilesIdle
    /\ PoolIdle

\* name = getattr(uploaded_file, "name", None); if not name: return uploaded_file
WaitBegin ==
    /\ w_pc = "start"
    /\ IF w_named
       THEN w_pc' = "loop" /\ UNCHANGED w_ret
       ELSE w_pc' = "returned" /\ w_ret' = "uploaded_file"
    /\ UNCHANGED <<w_named, w_elapsed, w_seen, w_last, cvars, vvars, lvars, mvars, dvars,
                   fvars, pvars>>

\* A pass that leaves the clock where it was.
ClockStopped(elapsed, d) == elapsed

\* The clock after a poll of d seconds and time.sleep(poll).
AfterSleep(elapsed, d) == elapsed + d + WAIT_POLL

\* One pass of the loop: f2 = genai.get_file(name); return f2 when its state
\* is "ACTIVE"; otherwise, and when the call raises, time.sleep(poll).
WaitPoll ==
    /\ w_pc = "loop"
    /\ w_elapsed < WAIT_TIMEOUT
    /\ \E outcome \in PollOutcomes, d \in 0..MaxPollDelay :
          /\ w_seen' = outcome
          /\ w_last' = IF outcome = "raised" THEN w_last ELSE "f2"
          /\ IF outcome = "ACTIVE"
             THEN w_ret' = "f2" /\ w_pc' = "returned" /\ w_elapsed' = w_elapsed + d
             ELSE w_elapsed' = AfterSleep(w_elapsed, d) /\ UNCHANGED <<w_ret, w_pc>>
    /\ UNCHANGED <<w_named, cvars, vvars, lvars, mvars, dvars, fvars, pvars>>

\* The loop condition fails: return uploaded_file
WaitGiveUp ==
    /\ w_pc = "loop"
    /\ w_elapsed >= WAIT_TIMEOUT
    /\ w_ret' = "uploaded_file"
    /\ w_pc' = "returned"
    /\ UNCHANGED <<w_named, w_elapsed, w_seen, w_last, cvars, vvars, lvars, mvars, dvars,
                   fvars, pvars>>

NextWait == WaitBegin \/ WaitPoll \/ WaitGiveUp

SpecWait == InitWait /\ [][NextWait]_vars

SpecWaitFair == SpecWait /\ WF_vars(NextWait)

(***************************************************************************)
(* The claims about the layout engine, under Spec.                         *)
(***************************************************************************)
\* The record of the Acme example: company "Acme", one item "1. Widget",
\* quantity 2, unit "pcs", unit price 10, total 20.
AcmeWidgetRecord(d) ==
    /\ d.company = JStr(S_Acme)
    /\ d.products = <<[name |-> JStr(S_1Widget), quantity |-> JNum(200),
                       unit |-> JStr(S_pcs), pricePerUnit |-> JNum(1000),
                       totalPrice |-> JNum(2000)]>>

\* The first call of the run was a single-document update with that record:
\* the sheet it found was empty.
AcmeOnEmptyGrid ==
    /\ calls = 1
    /\ l_pc = "idle"
    /\ last.op = "single"
    /\ last.ret = 1
    /\ AcmeWidgetRecord(last.data)

\* C1: after a single-document update of an empty grid with the Acme record
\* (item "1. Widget", 2, "pcs", 10, 20), the master-list cell of row 4 is
\* "Widget", row 1 of the block at column 3 is "Acme", row 3 of columns 3..6
\* holds the four fixed headers, and row 4 of columns 3..6 holds 2, "pcs",
\* 10, 20.
C1_AcmeBlock ==
    AcmeOnEmptyGrid =>
        /\ Cell(grid, 4, 2) = JStr(S_Widget)
        /\ Cell(grid, 1, 3) = JStr(S_Acme)
        /\ \A j \in 1..4 : Cell(grid, 3, 2 + j) = BLOCK_HEADERS[j]
        /\ Cell(grid, 4, 3) = JNum(200)
        /\ Cell(grid, 4, 4) = JStr(S_pcs)
        /\ Cell(grid, 4, 5) = JNum(1000)
        /\ Cell(grid, 4, 6) = JNum(2000)

C1_AcmeWritten == AcmeOnEmptyGrid /\ last.col = 3 /\ last.n_new = 1 /\ last.n_existing = 0

\* What a cell shows after value v was written to it.
Shown(v) == IF IsEmptyValue(v) THEN JStr(<<>>) ELSE v

\* The seven labels stand in column 2 on the rows from first on, in label
\* order, and the values of data in column price_col of the same rows.
SummaryBlockAt(first, price_col, data) ==
    \A i \in 1..Len(SUMMARY_LABELS) :
        /\ Cell(grid, first + i - 1, ITEM_MASTER_LIST_COL) = JStr(SUMMARY_LABELS[i])
        /\ Cell(grid, first + i - 1, price_col) = Shown(SummaryValues(data)[i])

AcmeSummaryValues(data) ==
    SummaryValues(data) =
        <<JNum(2000), JNum(140), JNum(2140), JNum(0), JStr(<<>>), JStr(<<>>), JStr(<<>>)>>

\* C2 as stated: in the Acme scenario on an empty grid the seven labels are
\* written in column 2 at rows 6..12, two rows after the product inserted at
\* row 4, with 20, 1.4, 21.4, 0, "", "", "" in column 6 of the same rows.
C2_RowsSixToTwelve ==
    AcmeOnEmptyGrid => AcmeSummaryValues(last.data) /\ SummaryBlockAt(6, 6, last.data)

\* C2: a single-document update that finds no summary row writes the seven
\* labels fresh, in label order on consecutive rows of column 2, from row
\* insertion_row + len(new_products) + 2 on - three rows after the last
\* inserted product row - with the record's values in the supplier's total
\* column; in the Acme scenario that is rows 7..13 and the values 20, 1.4,
\* 21.4, 0, "", "", "" in column 6.
C2_FreshSummary ==
    /\ (last.op = "single" /\ last.ret = 1 /\ last.first_summary_row = -1) =>
           SummaryBlockAt((last.insertion_row + last.n_new - 1) + 3,
                          last.col + COLUMNS_PER_SUPPLIER - 1, last.data)
    /\ AcmeOnEmptyGrid =>
           /\ last.insertion_row = 4 /\ last.n_new = 1
           /\ AcmeSummaryValues(last.data)
           /\ SummaryBlockAt(7, 6, last.data)

C2_FreshWritten ==
    /\ AcmeOnEmptyGrid
    /\ last.first_summary_row = -1
    /\ Cell(grid, 7, ITEM_MASTER_LIST_COL) = JStr(SUMMARY_LABELS[1])

\* The row a row of the sheet before the update has after it.
RowAfter(r, did) == IF r >= did.insertion_row THEN r + did.n_new ELSE r

\* The first matched item of each name: the one whose figures the update
\* writes.
FirstOfName(matched, i) == \A j \in 1..(i - 1) : matched[j].name # matched[i].name

\* A second single-document update, for a company other than the first one's,
\* on the sheet the first single-document update left.
SecondSupplier ==
    /\ calls = 1 /\ l_pc = "idle" /\ last.op = "single" /\ last.ret = 1
    /\ calls' = 2 /\ last'.op = "single" /\ last'.ret = 1
    /\ last'.data.company # last.data.company

SecondSupplierEffect ==
    /\ last'.col = 7
    /\ \A i \in 1..Len(last'.matched) :
          FirstOfName(last'.matched, i) =>
              \E r \in last'.matched_rows :
                  /\ r \in ProductRows(grid)
                  /\ clean_product_name(MasterText(grid, r)) = last'.matched[i].name.s
                  /\ \A j \in 1..4 :
                        Cell(grid', r, 6 + j) = Shown(Figures(last'.matched[i])[j])
    /\ \A r \in 1..LastRow(grid), c \in 3..6 :
          Cell(grid', RowAfter(r, last'), c) = Cell(grid, r, c)

C4_SameBlock ==
    (last.ret = 1 /\ last.owned) => (last.col = last.owned_col /\ ~last.advanced)

\* A call of the single-document function with a record without line items.
ZeroItemSingle ==
    /\ l_pc = "idle" /\ l_pc' = "idle"
    /\ calls' = calls + 1
    /\ last'.op = "single"
    /\ last'.data.products = <<>>

\* The cells outside A1:B3, which ensure_first_three_rows_exist blanks.
BeyondReserved(r, c) == r > HEADER_ROW \/ c > ITEM_MASTER_LIST_COL

\* C14: a single-document call with a record without line items returns 0,
\* inserts no row and writes no company, contact, header, product or summary
\* cell, and allocates no supplier block.
C14_ZeroItemsSkipped ==
    [][ZeroItemSingle =>
           /\ last'.ret = 0
           /\ LastRow(grid') = LastRow(grid) /\ LastCol(grid') = LastCol(grid)
           /\ \A r \in 1..LastRow(grid), c \in 1..LastCol(grid) :
                  BeyondReserved(r, c) => Cell(grid', r, c) = Cell(grid, r, c)
           /\ find_next_available_column(grid') = find_next_available_column(grid)
           /\ owner' = owner]_vars

C14_SkippedOnSheet ==
    /\ calls = 2 /\ l_pc = "idle"
    /\ last.op = "single" /\ last.ret = 0 /\ last.data.products = <<>>
    /\ grid # EmptyGrid

\* A call of a *_with_multiple_files function.
RoutedCall == l_pc = "idle" /\ calls' = calls + 1 /\ entry'.fn = "multiple"

\* The step is one call of the single-document function on the record.
AsSingleFunction(data) ==
    /\ l_pc' = "idle"
    /\ \E answer \in Answers(variant, CleanNames(data.products),
                              RefNames(ScanProducts(ensure_first_three_rows_exist(grid)))) :
           /\ grid' = SingleResult(grid, data, variant, answer).grid
           /\ last' = Record(SingleResult(grid, data, variant, answer).did)

\* C15: a *_with_multiple_files call with exactly one record does what the
\* single-document function does on that record; with any other number of
\* records it starts the loop, and every record of the list, those without
\* items and their siblings alike, goes through the loop.
C15_Routing ==
    [][/\ RoutedCall =>
            IF entry'.n = 1 THEN AsSingleFunction(last'.data)
            ELSE l_pc' = "multi" /\ Len(l_queue') = entry'.n /\ last' = last
       /\ (l_pc = "multi" /\ l_queue # <<>>) =>
            /\ entry.fn = "multiple" /\ entry.n # 1
            /\ last'.op = "multi" /\ last'.data = Head(l_queue)]_vars

C15_OneRecordReusesSummary ==
    /\ l_pc = "idle" /\ entry = [fn |-> "multiple", n |-> 1]
    /\ last.op = "single" /\ last.ret = 1 /\ last.first_summary_row > 0

\* C20: after a document was processed, every row that received the figures
\* of a matched item holds, in column 2 of the sheet as the update left it,
\* the name of a matched item.
C20_MatchedRowHoldsProduct ==
    last.ret = 1 =>
        \A r \in last.matched_rows :
            \E i \in 1..Len(last.matched) :
                clean_product_name(MasterText(grid, r)) = last.matched[i].name.s

\* C21: for a processed record with items, the figure writes in the
\* supplier's block (one per row written for a matched item, one per new
\* product) are as many as the items the matcher returned.
C21_EveryItemWritten ==
    last.ret = 1 =>
        Cardinality(last.matched_rows) + last.n_new = Len(last.matched) + last.n_unique

\* C26: after any sequence of updates from the empty grid no two product
\* rows hold the same normalized product name.
C26_NoDuplicateRows ==
    \A r1, r2 \in ProductRows(grid) :
        clean_product_name(MasterText(grid, r1)) = clean_product_name(MasterText(grid, r2))
            => r1 = r2

\* One pass of the multi-document loop.
MultiStep == l_pc = "multi" /\ l_queue # <<>> /\ l_queue' = Tail(l_queue)

\* The pass before was of the same call and wrote its record.
AfterEarlierDocument == Len(l_queue) < entry.n /\ last.op = "multi" /\ last.ret = 1

\* The rows the document did inserted.
InsertedRows(did) == did.insertion_row..(did.insertion_row + did.n_new - 1)

\* Row r, inserted by the pass before, is in existing_products under the
\* name column 2 shows; this pass writes the figures of the first item
\* matched to that name on row r, and inserts no row of that name.
CarriedOver(r) ==
    /\ \E i \in 1..Len(existing_products) :
          /\ existing_products[i].row = r
          /\ existing_products[i].name = clean_product_name(MasterText(grid, r))
    /\ \A i \in 1..Len(last'.matched) :
          (/\ FirstOfName(last'.matched, i)
           /\ last'.matched[i].name.s = clean_product_name(MasterText(grid, r))
           /\ \A r2 \in InsertedRows(last) :
                 MasterText(grid, r2) = MasterText(grid, r) => r <= r2) =>
              /\ r \in last'.matched_rows
              /\ \A j \in 1..COLUMNS_PER_SUPPLIER :
                    Cell(grid', r, last'.col + j - 1) = Shown(Figures(last'.matched[i])[j])
    /\ \A r2 \in InsertedRows(last') :
          clean_product_name(MasterText(grid', r2)) # clean_product_name(MasterText(grid, r))

\* C27: the state of a multi-document call only advances: a product inserted
\* for one document is a reference for the next, whose item resolved to it
\* is written on its row, with no second row; the next free column never
\* decreases; and two new companies processed one after the other get blocks
\* four columns apart.
C27_MultiAdvances ==
    [][MultiStep =>
           /\ next_avail_col' >= next_avail_col
           /\ AfterEarlierDocument => \A r \in InsertedRows(last) : CarriedOver(r)
           /\ (/\ AfterEarlierDocument /\ last.advanced
               /\ last'.ret = 1 /\ last'.advanced
               /\ last'.data.company # last.data.company) =>
                  last'.col = last.col + COLUMNS_PER_SUPPLIER]_vars

\* The second record of a call on the empty grid had an item matched to a
\* product the first record inserted, and its company got the second block.
C27_SecondDocument ==
    /\ calls = 1 /\ l_pc = "multi" /\ l_queue = <<>> /\ entry.n = 2
    /\ last.op = "multi" /\ last.ret = 1
    /\ last.matched_rows # {} /\ last.n_new = 0
    /\ last.advanced /\ last.col = ITEM_MASTER_LIST_COL + 1 + COLUMNS_PER_SUPPLIER

(***************************************************************************)
(* The claims about one update of a prepared sheet, under SpecSheet.       *)
(***************************************************************************)
\* A call of the single-document function with a record that has items.
SingleWithItems ==
    /\ l_pc = "idle" /\ l_pc' = "idle"
    /\ calls' = calls + 1
    /\ last'.op = "single" /\ last'.ret = 1

\* The first summary row if there is one, otherwise the row after the last
\* product row (row 4 on a sheet without products).
ExpectedInsertion(g) ==
    IF SummaryRows(g) # {} THEN SetMin(SummaryRows(g))
    ELSE IF ProductRows(g) = {} THEN HEADER_ROW + 1
    ELSE SetMax(ProductRows(g)) + 1

\* Row r of the new sheet holds the name and the quantity of an item of data.
HoldsItemOf(g, r, col, data) ==
    \E k \in 1..Len(data.products) :
        /\ MasterText(g, r) = clean_product_name(data.products[k].name.s)
        /\ Cell(g, r, col) = data.products[k].quantity

\* C22: a single-document update inserts at the first summary row, or after
\* the last product row when there is none; the rows from there on move down
\* by the number of new products, and the new products stand on the rows in
\* between, one after the other.
C22_InsertionPoint ==
    [][SingleWithItems =>
           /\ last'.insertion_row = ExpectedInsertion(ensure_first_three_rows_exist(grid))
           /\ \A r \in (HEADER_ROW + 1)..LastRow(grid) :
                 MasterText(grid', IF r >= last'.insertion_row THEN r + last'.n_new ELSE r)
                     = MasterText(grid, r)
           /\ \A i \in 1..last'.n_new :
                 HoldsItemOf(grid', last'.insertion_row + i - 1, last'.col, last'.data)]_vars

\* The value the record has for a summary label.
ValueOfLabel(data, lab) ==
    SummaryValues(data)[CHOOSE i \in 1..Len(SUMMARY_LABELS) : SUMMARY_LABELS[i] = lab]

\* C23: when a single-document update recovers summary rows and inserts
\* n > 0 rows, each recorded summary row moves down by n: the record's value
\* for the label stands in the supplier's total column on the row whose
\* master-list cell holds the label after the insertion.
C23_SummaryShifted ==
    [][(SingleWithItems /\ SummaryRows(grid) # {} /\ last'.n_new > 0) =>
           \A lab \in DOMAIN ScanSummary(grid) :
               /\ MasterText(grid', ScanSummary(grid)[lab] + last'.n_new) = lab
               /\ Cell(grid', ScanSummary(grid)[lab] + last'.n_new,
                       last'.col + COLUMNS_PER_SUPPLIER - 1)
                      = Shown(ValueOfLabel(last'.data, lab))]_vars

\* A single-document update has moved the subtotal row down and written the
\* record's subtotal on it.
C23_ShiftedWritten ==
    /\ last.op = "single" /\ last.ret = 1
    /\ last.first_summary_row > 0 /\ last.n_new > 0
    /\ \E r \in (last.first_summary_row + last.n_new)..LastRow(grid) :
          /\ MasterText(grid, r) = L_Subtotal
          /\ Cell(grid, r, last.col + COLUMNS_PER_SUPPLIER - 1)
                 = Shown(SummaryValues(last.data)[1])

\* On sheet g the seven labels stand once each in column 2, on the rows from
\* first on, in label order, and below every product row.
LabelBlockAt(g, first) ==
    /\ SummaryRows(g) = first..(first + Len(SUMMARY_LABELS) - 1)
    /\ \A i \in 1..Len(SUMMARY_LABELS) :
          Cell(g, first + i - 1, ITEM_MASTER_LIST_COL) = JStr(SUMMARY_LABELS[i])
    /\ \A r \in ProductRows(g) : r < first

\* The summary values of the record processed last stand on the label rows
\* from first on, and in no block a total stands alone (a summary value: the
\* figures of an item fill the four columns) on another row.
ValuesOnLabelRows(g, did, first) ==
    /\ \A i \in 1..Len(SUMMARY_LABELS) :
          Cell(g, first + i - 1, did.col + COLUMNS_PER_SUPPLIER - 1)
              = Shown(SummaryValues(did.data)[i])
    /\ \A c \in BlockColumns(g) : \A r \in (HEADER_ROW + 1)..LastRow(g) :
          (/\ ~IsEmptyValue(Cell(g, r, c + COLUMNS_PER_SUPPLIER - 1))
           /\ IsEmptyValue(Cell(g, r, c))) =>
              r \in first..(first + Len(SUMMARY_LABELS) - 1)

\* C24: after updates from the empty grid - here the first document that
\* src/test.py writes on it - the seven summary labels stand once each in
\* column 2, on consecutive rows in their fixed order and below every
\* product row, and the summary values stand on the rows of their labels.
C24_OneSummaryBlock ==
    [][(grid = EmptyGrid /\ variant = "gsheet" /\ last'.ret = 1 /\ calls' = 1) =>
           \E first \in SummaryRows(grid') :
               LabelBlockAt(grid', first) /\ ValuesOnLabelRows(grid', last', first)]_vars

\* The figure writes of the matched items of the document did on sheet g.
MatchedWrites(g, did) ==
    MatchedRequests(did.matched, ScanProducts(ensure_first_three_rows_exist(g)), did.col, {})

\* The first item of the matcher's output that has the name of row r of g.
FirstMatchedOfRow(g, did, r) ==
    did.matched[SetMin({i \in 1..Len(did.matched) :
                           did.matched[i].name.s = clean_product_name(MasterText(g, r))})]

UpdateBegins == l_pc = "idle" /\ calls' = calls + 1

\* The cells of the first three rows that hold non-empty text.
ReservedText(g) == {p \in DOMAIN g : p[1] <= HEADER_ROW /\ ~IsEmptyValue(g[p])}

\* C31: ensure_first_three_rows_exist blanks only reserved-row cells that
\* are absent: every cell of rows 1..3 that holds non-empty text before an
\* update, columns 1 and 2 included, holds the same text after the call, and
\* the cells of columns 1 and 2 still hold it when the update is over.
C31_ReservedTextKept ==
    [][UpdateBegins =>
          \A p \in ReservedText(grid) :
              /\ Cell(ensure_first_three_rows_exist(grid), p[1], p[2]) = grid[p]
              /\ p[2] <= ITEM_MASTER_LIST_COL => Cell(grid', p[1], p[2]) = grid[p]]_vars

\* A step that processes one document: the single-document function, or one
\* pass of the multi-document loop over the head of the queue.
DocumentStep ==
    \/ l_pc = "idle" /\ l_pc' = "idle" /\ calls' = calls + 1
    \/ MultiStep /\ last'.data = Head(l_queue)

\* The sheet the document's calls are made on: the single-document function
\* blanks the reserved cells first, the loop did so before its scan.
SheetOfDocument == IF l_pc = "idle" THEN ensure_first_three_rows_exist(grid) ELSE grid

\* The cells written by the last call of ops.
LastBatchCells(ops) ==
    UNION {RequestCells(ops[Len(ops)].requests[i]) : i \in 1..Len(ops[Len(ops)].requests)}

\* The header cells, the rows of the matched items, the inserted rows and a
\* summary row of the block at column did.col of sheet g are among cells.
DocumentWritesIn(cells, g, did) ==
    /\ \A r \in 1..HEADER_ROW : <<r, did.col>> \in cells
    /\ \A r \in did.matched_rows : <<r, did.col>> \in cells
    /\ \A r \in InsertedRows(did) :
          <<r, ITEM_MASTER_LIST_COL>> \in cells /\ <<r, did.col>> \in cells
    /\ \E r \in SummaryRows(g) : <<r, did.col + COLUMNS_PER_SUPPLIER - 1>> \in cells

\* C34: for each processed document the row insertion, if any, is issued
\* before the document's cell writes, and all of its cell writes (headers,
\* matched rows, new product rows, summary rows) are issued as exactly one
\* batch call after it; in the multi-document path the calls of document k
\* are all made in the pass of document k, before any call of document k+1.
C34_InsertThenOneBatch ==
    [][(DocumentStep /\ last'.ret = 1) =>
          /\ Len(last'.ops) = (IF last'.n_new > 0 THEN 2 ELSE 1)
          /\ last'.n_new > 0 => last'.ops[1] = InsertCall(last'.n_new, last'.insertion_row)
          /\ last'.ops[Len(last'.ops)].call = "batch_update"
          /\ DocumentWritesIn(LastBatchCells(last'.ops), grid', last')
          /\ grid' = RunCalls(SheetOfDocument, last'.ops)]_vars

\* The first of two documents inserted a row and wrote on a matched row; the
\* second is still to come.
C34_BatchBeforeNextDocument ==
    /\ l_pc = "multi" /\ Len(l_queue) = 1 /\ entry.n = 2
    /\ last.op = "multi" /\ last.ret = 1
    /\ Len(last.ops) = 2 /\ last.ops[1].call = "insert_rows"
    /\ last.matched_rows # {}

(***************************************************************************)
(* The layout functions of src/excelOutput.py, which reach the workbook    *)
(* through ExcelSheetAdapter, given the result m of the matcher.           *)
(***************************************************************************)
\* [[""]] * len(new_products)
BlankRows(new_products) == [i \in 1..Len(new_products) |-> <<JStr(<<>>)>>]

\* The rows inserted below the row asked for.
InsertBelow(new_rows, insertion_row) ==
    IF Len(new_rows) > 0 THEN <<InsertCall(Len(new_rows), insertion_row + 1)>> ELSE <<>>

\* ExcelSheetAdapter.insert_rows: amount = len(new_rows), and
\* if amount > 0: self.ws.insert_rows(insertion_row, amount=amount)
AdapterInsertRows(new_rows, insertion_row) ==
    IF Len(new_rows) > 0 THEN <<InsertCall(Len(new_rows), insertion_row)>> ELSE <<>>

\* if new_products: ws_adapter.insert_rows([[""]]*len(new_products), row)
\* ... and, last, if batch_requests: ws_adapter.batch_update(batch_requests)
AdapterCalls(new_products, insertion_row, requests) ==
    (IF new_products # <<>>
     THEN AdapterInsertRows(BlankRows(new_products), insertion_row) ELSE <<>>)
    \o (IF requests # <<>> THEN <<BatchCall(requests)>> ELSE <<>>)

\* update_excel_for_single_file from the new products on.
ExcelSingleInserted(data, existing, smap, first_summary_row, col_idx, m, new_products, insertion_row) ==
    AdapterCalls(new_products, insertion_row,
                 HeaderRequests(col_idx, data)
                 \o MatchedRequests(m.matchedItems, existing, col_idx, {})
                 \o NewProductRequests(new_products, insertion_row, col_idx)
                 \o SummaryRequests(ShiftSummary(smap, first_summary_row, Len(new_products)),
                                    insertion_row, Len(new_products),
                                    col_idx + COLUMNS_PER_SUPPLIER - 1, data))

\* update_excel_for_single_file after its scan.
ExcelSingleScanned(data, existing, smap, first_summary_row, col_idx, m) ==
    IF data.products = <<>> THEN <<>>
    ELSE ExcelSingleInserted(data, existing, smap, first_summary_row, col_idx, m,
                             NewProducts(m.uniqueItems, existing),
                             IF first_summary_row > 0 THEN first_summary_row
                             ELSE HEADER_ROW + 1 + Len(existing))

\* The calls update_excel_for_single_file makes on the snapshot g, taken
\* after ensure_first_three_rows_exist, when the matcher returns m.
update_excel_for_single_file(g, data, m) ==
    ExcelSingleScanned(data, ScanProducts(g), ScanSummary(g), FirstSummaryRow(g),
                       ResolveColumn(ScanSuppliers(g), data.company.s,
                                     find_next_available_column(g)), m)

\* One pass of the loop of update_excel_with_multiple_files from the new
\* products on.
ExcelMultiInserted(data, existing, col_idx, m, new_products, next_row) ==
    AdapterCalls(new_products, next_row,
                 HeaderRequests(col_idx, data)
                 \o MatchedRequests(m.matchedItems, existing, col_idx, {})
                 \o NewProductRequests(new_products, next_row, col_idx)
                 \o FreshSummaryRequests(1, HEADER_ROW + 1 + Len(existing)
                                            + Len(new_products) + 2,
                                         col_idx + COLUMNS_PER_SUPPLIER - 1, data))

\* The calls one pass of the loop of update_excel_with_multiple_files makes
\* for the record data, when the matcher returns m.
update_excel_with_multiple_files(existing, suppliers, nac, data, m) ==
    IF data.products = <<>> THEN <<>>
    ELSE ExcelMultiInserted(data, existing, ResolveColumn(suppliers, data.company.s, nac), m,
                            NewProducts(m.uniqueItems, existing),
                            HEADER_ROW + 1 + Len(existing))

\* The calls the Excel variant makes for the document of this step, given
\* the matcher result the step worked with.
ExcelCallsOfStep ==
    IF l_pc = "idle"
    THEN update_excel_for_single_file(SheetOfDocument, last'.data,
                                      [matchedItems |-> last'.matched,
                                       uniqueItems |-> last'.unique])
    ELSE update_excel_with_multiple_files(existing_products, existing_suppliers,
                                          next_avail_col, last'.data,
                                          [matchedItems |-> last'.matched,
                                           uniqueItems |-> last'.unique])

\* C37: the layout logic of src/test.py (Google Sheets) and of
\* src/excelOutput.py (Excel through ExcelSheetAdapter) are equivalent: on
\* the same snapshot, the same record and the same matcher result, both
\* issue the same row insertion (position, count) and the same cell writes
\* (range, values) in the same order, and leave equal grids.
C37_SameCallsSameGrid ==
    [][DocumentStep =>
          /\ last'.ops = ExcelCallsOfStep
          /\ grid' = RunCalls(SheetOfDocument, ExcelCallsOfStep)]_vars

\* A document of the Sheets variant with a row insertion and a write on a
\* matched row, in a pass of the multi-document loop.
C37_SheetsDocumentInsertsAndMatches ==
    /\ variant = "gsheet" /\ last.op = "multi" /\ last.ret = 1
    /\ Len(last.ops) = 2 /\ last.ops[1].call = "insert_rows"
    /\ last.matched_rows # {}

(***************************************************************************)
(* The claims about src/app.py, under SpecApp.                             *)
(***************************************************************************)
\* C28: in src/app.py too a column is counted from 1: a record whose company
\* stands in row 1 is written to the start column of that company's block,
\* which is column 3 or later, and row 1 of column 2 is never written.
C28_OneBasedColumns ==
    (last.op = "single" /\ last.ret = 1) =>
        /\ last.col >= ITEM_MASTER_LIST_COL + 1
        /\ IsEmptyValue(Cell(grid, COMPANY_NAME_ROW, ITEM_MASTER_LIST_COL))

\* The scan of a multi-document call has just been made.
JustScanned == l_pc = "multi" /\ Len(l_queue) = entry.n

\* C29: the scan never records a row whose trimmed master-list cell is a
\* summary label as a product, and records every other non-blank cell of
\* column 2 from row 4 on with its normalized name and its row - here for
\* the multi-document function of src/app.py.
C29_LabelsNotProducts ==
    JustScanned =>
        /\ \A i \in 1..Len(existing_products) :
              MasterText(grid, existing_products[i].row) \notin LabelSet
        /\ \A r \in ProductRows(grid) :
              \E i \in 1..Len(existing_products) :
                  /\ existing_products[i].row = r
                  /\ existing_products[i].name = clean_product_name_app(MasterText(grid, r))

\* The columns from 3 on that have a non-blank cell in the first three rows
\* of sheet g.
UsedTopColumns(g) ==
    {p[2] : p \in {q \in DOMAIN g : /\ q[1] <= HEADER_ROW
                                     /\ q[2] > ITEM_MASTER_LIST_COL
                                     /\ strip(CellText(g, q[1], q[2])) # <<>>}}

\* Column c starts a block, every used column is left of it, and the block
\* before it is used (or c is 3).
FirstFreeBlock(g, c) ==
    /\ c >= ITEM_MASTER_LIST_COL + 1
    /\ (c - (ITEM_MASTER_LIST_COL + 1)) % COLUMNS_PER_SUPPLIER = 0
    /\ \A u \in UsedTopColumns(g) : u < c
    /\ c > ITEM_MASTER_LIST_COL + 1 =>
           \E u \in UsedTopColumns(g) : u >= c - COLUMNS_PER_SUPPLIER

\* C30: find_next_available_column returns the start of the first block
\* after every non-blank cell of rows 1..3 (column 3 when there is none from
\* column 3 on) - here for src/app.py, whose multi-document function keeps
\* the value in next_avail_col.
C30_BlockAligned == JustScanned => FirstFreeBlock(grid, next_avail_col)

(***************************************************************************)
(* The claims about process_files, under SpecFiles.                        *)
(***************************************************************************)
\* process_files is over: it returned or an exception left it.
FilesOver == f_pc \in {"returned", "raised"}

Failed(i) == future_to_file[i].result.kind \in {"error", "raised"}

\* C16: when process_files is over for at least one document, it has not
\* raised; every task ran to its end; every document is in exactly one of the
\* two lists, a failed one in the error list; and the successes were handed
\* to the sheet update.
C16_FailureIsolated ==
    (FilesOver /\ total_files >= 1) =>
        /\ f_pc = "returned"
        /\ AllDone(future_to_file)
        /\ \A i \in 1..total_files :
              future_to_file[i].listed = (IF Failed(i) THEN "error" ELSE "data")
        /\ Len(data_list) + Len(error_list) = total_files
        /\ (data_list # <<>>) => (calls = 1 /\ entry.n = Len(data_list))

\* Some task extracted a record.
SomeRecord == \E i \in DOMAIN future_to_file : future_to_file[i].result.kind = "data"

\* C17: the sheet is untouched while an extraction task is still pending or
\* running; the update function is called at most once; and when
\* process_files is over it was called exactly once if some task extracted a
\* record and never otherwise.
C17_UpdateOnce ==
    /\ (calls > 0 \/ grid # EmptyGrid) => AllDone(future_to_file)
    /\ calls <= 1
    /\ FilesOver => (calls = (IF SomeRecord THEN 1 ELSE 0))

\* The objects the two external models can give in a run, and what the
\* validator returns for them.
ExternalObjects ==
    {x.raw : x \in {e \in Extractions : e.kind = "dict"}} \cup {LayoutRaw(S_Acme, <<E_1Widget>>)}

ValidatorOutputs == {validate_json_data(raw) : raw \in ExternalObjects}

\* C32: every record process_files hands to the grid update is an output of
\* validate_json_data, also when the enhance step returned another object
\* than the one it was given: the collected records, the records the update
\* is still to process and the record it processed last all are.
C32_OnlyValidated ==
    /\ \A i \in 1..Len(data_list) : data_list[i] \in ValidatorOutputs
    /\ \A i \in 1..Len(l_queue) : l_queue[i] \in ValidatorOutputs
    /\ last.op # "none" => last.data \in ValidatorOutputs

\* The sheets a multi-document loop can leave after the records docs, over
\* the answers the matcher can give.
RECURSIVE GridsOfDocs(_, _, _, _, _, _)
RECURSIVE GridsAfter(_, _, _)
GridsAfter(r, docs, var) == GridsOfDocs(r.grid, r.existing, r.suppliers, r.nac, docs, var)

GridsOfDocs(g, existing, suppliers, nac, docs, var) ==
    IF docs = <<>> THEN {g}
    ELSE UNION {GridsAfter(MultiDocResult(g, existing, suppliers, nac, Head(docs), var, answer),
                           Tail(docs), var) :
                   answer \in Answers(var, CleanNames(Head(docs).products), RefNames(existing))}

GridsOnSheet(g, docs, var) ==
    GridsOfDocs(g, ScanProducts(g), ScanSuppliers(g), find_next_available_column(g), docs, var)

\* The sheets one call of update_*_with_multiple_files can leave on sheet g0.
GridsOfCall(g0, docs, var) ==
    IF Len(docs) = 1
    THEN {SingleResult(g0, docs[1], var, answer).grid :
             answer \in Answers(var, CleanNames(docs[1].products),
                                RefNames(ScanProducts(ensure_first_three_rows_exist(g0))))}
    ELSE GridsOnSheet(ensure_first_three_rows_exist(g0), docs, var)

\* The extracted records in the order of file_paths.
InFileOrder ==
    LET ok == SelectSeq(future_to_file, LAMBDA f : f.result.kind = "data")
    IN [i \in 1..Len(ok) |-> ok[i].result.data]

\* C33: for the same documents with the same extraction results, the sheet
\* process_files leaves is the same whatever the order in which the tasks
\* complete: it is a sheet that the update leaves when the tasks complete in
\* the order of file_paths.
C33_OrderIndependent ==
    (f_pc = "returned" /\ data_list # <<>>) =>
        grid \in GridsOfCall(EmptyGrid, InFileOrder, variant)

(***************************************************************************)
(* The claim about the thread pool, under SpecPool.                        *)
(***************************************************************************)
Smaller(a, b) == IF a < b THEN a ELSE b

\* A step of a worker thread on task i.
WorkerStep(i) ==
    /\ i \in DOMAIN p_futures /\ DOMAIN p_futures' = DOMAIN p_futures
    /\ p_futures'[i] # p_futures[i]

\* C18: for every accepted number of documents, after every step at most
\* min(10, number of documents) tasks are running, and a step of a worker
\* changes the state of its own task only.
C18_BoundedWorkers ==
    [][/\ p_pc' = "running" => Cardinality(Running(p_futures')) <= Smaller(10, p_total')
       /\ \A i \in 1..MaxPoolFiles :
             WorkerStep(i) => \A j \in DOMAIN p_futures \ {i} : p_futures'[j] = p_futures[j]]_vars

C18_PoolFull ==
    /\ p_total > 10
    /\ Cardinality(Running(p_futures)) = 10
    /\ \E i \in DOMAIN p_futures : p_futures[i].phase = "pending"

(***************************************************************************)
(* The claim about match_products_smart, under SpecMatch.                  *)
(***************************************************************************)
\* C5: no reference name is the name of two items of the matched list, and
\* the matched list is no longer than the reference list.
C5_ConsumedOnce ==
    m_pc = "done" =>
        /\ \A i, j \in 1..Len(m_out.matchedItems) :
              i # j => m_out.matchedItems[i].name # m_out.matchedItems[j].name
        /\ Len(m_out.matchedItems) <= Len(m_refs)

\* C11: with no targets both matchers return no matched and no unique item;
\* with no references both return no matched item and the targets, same items
\* in the same order, as unique; the external model is asked in neither case.
C11_Degenerate ==
    m_pc = "done" =>
        /\ m_targets = <<>> =>
               /\ m_out = [matchedItems |-> <<>>, uniqueItems |-> <<>>]
               /\ m_gem = Outcome(FALSE, FALSE, <<>>, <<>>)
        /\ (m_targets # <<>> /\ m_refs = <<>>) =>
               /\ m_out = [matchedItems |-> <<>>, uniqueItems |-> m_targets]
               /\ m_gem = Outcome(FALSE, FALSE, <<>>, m_targets)

C11_NoReferences ==
    m_pc = "done" /\ Len(m_targets) = 2 /\ m_refs = <<>> /\ m_resp.kind = "raises"

\* The names of the reference list.
RefNameSet == {m_refs[r] : r \in 1..Len(m_refs)}

\* Target i has the normalized name of some reference.
ExactTarget(i) ==
    \E r \in 1..Len(m_refs) :
        normalize_text(m_refs[r]) = normalize_text(strip(m_targets[i].name.s))

\* Matched item k came from target i: the figures of a target tell it from
\* every other target of the run.
CameFrom(k, i) == Figures(m_out.matchedItems[k]) = Figures(m_targets[i])

\* C12: every matched item of match_products_smart has the original name of
\* a reference of the input list and the quantity, unit, unit price and total
\* of one target; a target whose normalized name is that of a reference is
\* matched, under the name of a reference with that normalized name.
C12_ReferenceName ==
    m_pc = "done" =>
        /\ \A k \in 1..Len(m_out.matchedItems) :
              /\ m_out.matchedItems[k].name.k = "str"
              /\ m_out.matchedItems[k].name.s \in RefNameSet
              /\ \E i \in 1..Len(m_targets) : CameFrom(k, i)
        /\ \A i \in 1..Len(m_targets) :
              ExactTarget(i) =>
                  \E k \in 1..Len(m_out.matchedItems) :
                      /\ CameFrom(k, i)
                      /\ normalize_text(m_out.matchedItems[k].name.s)
                             = normalize_text(strip(m_targets[i].name.s))
        /\ Len(m_out.matchedItems) + Len(m_out.uniqueItems) = Len(m_targets)

C12_RenamedToReference ==
    /\ m_pc = "done"
    /\ Len(m_targets) = 1 /\ m_targets[1].name = JStr(S_1Widget)
    /\ m_refs = <<S_Widget>>
    /\ Len(m_out.matchedItems) = 1
    /\ m_out.matchedItems[1].name = JStr(S_Widget)
    /\ m_out.matchedItems[1].quantity = m_targets[1].quantity

\* Both names have recognized product types, and no type in common.
DisjointTypes(name_a, name_b) ==
    /\ normalize_types(name_a) # {}
    /\ normalize_types(name_b) # {}
    /\ normalize_types(name_a) \cap normalize_types(name_b) = {}

\* C35: in match_products_smart the material keywords decide only when no
\* product type is recognized: a target matched to a reference that does not
\* have its normalized name has dimensions close to the reference's, shares
\* a type or a material with it, and never has a type set disjoint from the
\* reference's type set.
C35_TypesBeforeMaterials ==
    m_pc = "done" =>
        \A i \in 1..Len(m_targets), k \in 1..Len(m_out.matchedItems) :
            (CameFrom(k, i) /\ ~ExactTarget(i)) =>
                /\ dims_close(parse_dimensions(strip(m_targets[i].name.s)),
                              parse_dimensions(m_out.matchedItems[k].name.s))
                /\ \/ normalize_types(strip(m_targets[i].name.s))
                         \cap normalize_types(m_out.matchedItems[k].name.s) # {}
                   \/ tokenize_material_semantics(strip(m_targets[i].name.s))
                         \cap tokenize_material_semantics(m_out.matchedItems[k].name.s) # {}
                /\ ~DisjointTypes(strip(m_targets[i].name.s), m_out.matchedItems[k].name.s)

\* The external model was asked and did not answer with an object.
MatcherFailed ==
    m_pc = "done" /\ m_targets # <<>> /\ m_refs # <<>> /\ m_resp.kind # "object"

\* C19: when the external call raises or its answer holds no object, both
\* model-backed matchers return no matched item and every target as unique,
\* and raise nothing.
C19_FailureFallsBack ==
    MatcherFailed =>
        /\ m_gem = Outcome(FALSE, TRUE, <<>>, m_targets)
        /\ m_app = Outcome(FALSE, TRUE, <<>>, m_targets)

(***************************************************************************)
(* The claim about _dims_close over _parse_dimensions, under SpecDims.     *)
(***************************************************************************)
\* Two lengths in thousandths of a millimetre differ by at most
\* max(5 mm, 2% of the larger).
WithinTolerance(a, b) ==
    \/ AbsDiff(a, b) <= 5000
    \/ AbsDiff(a, b) <= (IF a >= b THEN a ELSE b) \div 50

\* The general rules of the comparison, on the parsed dimensions.
DimsRules ==
    /\ (\E k \in DOMAIN d_pa.labeled \cap DOMAIN d_pb.labeled :
            ~WithinTolerance(d_pa.labeled[k], d_pb.labeled[k])) => ~d_close
    /\ (/\ d_pa.sequence # <<>> /\ d_pb.sequence # <<>>
        /\ Len(d_pa.sequence) # Len(d_pb.sequence)) => ~d_close
    /\ (d_pa = NoDimensions \/ d_pb = NoDimensions) => d_close

\* C13: "4672x970 mm" is close to "4.672x0.97 m" and to "4700x970mm" and not
\* to "5000x970mm"; a shared labeled axis outside max(5 mm, 2% of the larger
\* value), or first sequences of different arity, make the comparison false,
\* and a side without labeled and sequence data is close to anything.
C13_CloseEnough ==
    d_pc = "done" =>
        /\ (d_a = D_4672x970mm /\ d_b = D_4672x970m) => d_close
        /\ (d_a = D_4672x970mm /\ d_b = D_4700x970) => d_close
        /\ (d_a = D_4672x970mm /\ d_b = D_5000x970) => ~d_close
        /\ DimsRules

(***************************************************************************)
(* The claims about validate_json_data, under SpecValidate.                *)
(***************************************************************************)
\* C6: validate_json_data returns a record for every input and never raises.
C6_Total == v_pc = "done" => ~v_out.raised

\* C7: every product name of a returned record is a non-empty string without
\* an enumeration prefix.
C7_NameNeverEmpty ==
    (v_pc = "done" /\ ~v_out.raised) =>
        \A i \in 1..Len(v_out.products) :
            /\ v_out.products[i].name.k = "str"
            /\ v_out.products[i].name.s # <<>>
            /\ SubOrdinal(v_out.products[i].name.s) = v_out.products[i].name.s

\* C8: every product of a returned record has quantity > 0 and unit price >= 0.
C8_FigureRanges ==
    (v_pc = "done" /\ ~v_out.raised) =>
        \A i \in 1..Len(v_out.products) :
            /\ v_out.products[i].quantity.k = "num"
            /\ v_out.products[i].quantity.n > 0
            /\ v_out.products[i].pricePerUnit.k = "num"
            /\ v_out.products[i].pricePerUnit.n >= 0

\* A value that is present and parses as a number, and the number it is.
Parseable(v) == v.k = "num" \/ (v.k = "str" /\ IsNumberText(RemoveCommas(v.s)))
ParsedValue(v) == IF v.k = "num" THEN v.n ELSE NumberValue(RemoveCommas(v.s))
GivenOr(v, computed) == JNum(IF Parseable(v) THEN ParsedValue(v) ELSE computed)

RECURSIVE SumTo(_, _)
SumTo(ps, n) == IF n = 0 THEN 0 ELSE SumTo(ps, n - 1) + ps[n].totalPrice.n

\* The example of the default arithmetic: quantities [2, 3], unit prices
\* [10, 5], no explicit totals.
TwoItemsNoTotals ==
    /\ v_in.k = "dict"
    /\ v_in.products.k = "list"
    /\ Len(v_in.products.items) = 2
    /\ \A i \in 1..2 : v_in.products.items[i].obj /\ v_in.products.items[i].totalPrice = JAbsent
    /\ v_in.products.items[1].quantity = JNum(200)
    /\ v_in.products.items[1].pricePerUnit = JNum(1000)
    /\ v_in.products.items[2].quantity = JNum(300)
    /\ v_in.products.items[2].pricePerUnit = JNum(500)
    /\ v_in.totalPrice = JAbsent /\ v_in.totalVat = JAbsent
    /\ v_in.totalPriceIncludeVat = JAbsent

\* C9: in a returned record a line total is the given one when it parses as
\* a number and round(quantity * unit price, 2) otherwise; subtotal, VAT and
\* grand total are the given ones when they parse and otherwise the sum of
\* the line totals, round(subtotal * 0.07, 2) and round(subtotal + VAT, 2).
\* Quantities [2, 3] and unit prices [10, 5] without totals give line totals
\* 20 and 15, subtotal 35, VAT 2.45 and grand total 37.45.
C9_TotalsRule ==
    (v_pc = "done" /\ ~v_out.raised) =>
        /\ Len(v_out.products) = Len(v_in.products.items)
        /\ \A i \in 1..Len(v_out.products) :
              v_out.products[i].totalPrice =
                  GivenOr(v_in.products.items[i].totalPrice,
                          RoundDiv(v_out.products[i].quantity.n
                                   * v_out.products[i].pricePerUnit.n, 100))
        /\ v_out.totalPrice =
               GivenOr(v_in.totalPrice, SumTo(v_out.products, Len(v_out.products)))
        /\ v_out.totalVat = GivenOr(v_in.totalVat, (v_out.totalPrice.n * 7 + 50) \div 100)
        /\ v_out.totalPriceIncludeVat =
               GivenOr(v_in.totalPriceIncludeVat, v_out.totalPrice.n + v_out.totalVat.n)
        /\ TwoItemsNoTotals =>
               /\ v_out.products[1].totalPrice = JNum(2000)
               /\ v_out.products[2].totalPrice = JNum(1500)
               /\ v_out.totalPrice = JNum(3500)
               /\ v_out.totalVat = JNum(245)
               /\ v_out.totalPriceIncludeVat = JNum(3745)

C9_ExampleValidated ==
    /\ v_pc = "done" /\ ~v_out.raised
    /\ TwoItemsNoTotals
    /\ v_out.totalPriceIncludeVat = JNum(3745)

(***************************************************************************)
(* The claim about clean_product_name, under SpecClean.                    *)
(***************************************************************************)
\* C10: cleaning a cleaned name changes nothing, in src/test.py and
\* src/excelOutput.py (c_out) and in src/app.py (c_app).
C10_Idempotent == c_pc = "twice" => (c_out2 = c_out /\ c_app2 = c_app)

(***************************************************************************)
(* The claim about _wait_for_file_active, under SpecWait.                  *)
(***************************************************************************)
\* The loop is left no later than one pass after the ceiling.
WaitBounded == w_pc = "loop" => w_elapsed < WAIT_TIMEOUT + WAIT_POLL + MaxPollDelay

\* C36 as stated: _wait_for_file_active returns the polled file as soon as a
\* poll observes the state ACTIVE; otherwise, also when every poll raises,
\* it stops once the ceiling is reached and returns what was last observed:
\* the file of the last poll that returned one, the uploaded file when none
\* did.
C36_ReturnsLastObserved ==
    /\ w_seen = "ACTIVE" => (w_pc = "returned" /\ w_ret = "f2")
    /\ WaitBounded
    /\ (w_pc = "returned" /\ w_seen # "ACTIVE") =>
          /\ w_named => w_elapsed >= WAIT_TIMEOUT
          /\ w_ret = w_last

\* The call has returned: the polled file when the last poll saw ACTIVE,
\* otherwise the uploaded file it was given, and then the ceiling was reached
\* unless the file had no name; the last pass began before the ceiling.
WaitReturned ==
    /\ w_pc = "returned"
    /\ w_ret = (IF w_seen = "ACTIVE" THEN "f2" ELSE "uploaded_file")
    /\ (w_seen # "ACTIVE" /\ w_named) => w_elapsed >= WAIT_TIMEOUT
    /\ w_elapsed < WAIT_TIMEOUT + WAIT_POLL + MaxPollDelay

\* C36, amended: _wait_for_file_active always returns, whatever the polls
\* give: the polled file as soon as a poll observes ACTIVE; otherwise, also
\* when every poll raises, it leaves the loop within one pass after the
\* ceiling and returns the uploaded file object it was given, whether or not
\* a poll returned a file in between.
C36_ReturnsUploaded == <>[]WaitReturned

\* The ceiling was reached after a poll that returned a file not ACTIVE, and
\* the uploaded file was returned.
C36_TimedOutAfterPoll ==
    /\ w_pc = "returned" /\ w_ret = "uploaded_file"
    /\ w_seen = "PROCESSING" /\ w_last = "f2"
    /\ w_elapsed >= WAIT_TIMEOUT

====
